---- MODULE Spec2Model ----
(***************************************************************************)
(* RedactAI: the field-detection and redaction-decision core               *)
(* (ocr/backend/redact_ai.py) and the classifier bridge                    *)
(* (ocr/backend/ai_analysis.py), as state machines.                        *)
(*                                                                         *)
(* Text is modelled by TLA+ strings; TLC evaluates Len, SubSeq and \o on   *)
(* them, so str.lower, str.strip, "in", " ".join and the three compiled    *)
(* regular expressions are computed character by character.  Python lists  *)
(* are 1-based sequences here (token index i is Python index i-1).         *)
(***************************************************************************)
EXTENDS Integers, Sequences, FiniteSets, TLC

(***************************************************************************)
(* Bounds of the model.                                                    *)
(***************************************************************************)
MaxTokens == 3      \* tokens of a stream given to detect_entities_from_ocr
MaxOcrTokens == 2   \* tokens of a stream the OCR returns inside redact_image
MaxFields == 2      \* entries of permanent_fields + temporary_fields
MaxBoxes == 2       \* boxes of a raw hit list given to the deduplication loop
MaxCoord == 2       \* largest x and y of those boxes
MaxExtracted == 2   \* OCR fields given to enhance_document_fields
MaxPages == 2       \* pages of a PDF document

(***************************************************************************)
(* Characters and strings (Python str methods).                            *)
(***************************************************************************)
UPPER == "ABCDEFGHIJKLMNOPQRSTUVWXYZ"
LOWER == "abcdefghijklmnopqrstuvwxyz"
DIGITS == "0123456789"

Ch(s, i) == SubSeq(s, i, i)

\* set(s): the set of characters of s
CharSet(s) == {Ch(s, i) : i \in 1..Len(s)}

UpperChars == CharSet(UPPER)

DigitChars == CharSet(DIGITS)

WordChars == CharSet(UPPER) \cup CharSet(LOWER) \cup CharSet(DIGITS) \cup {"_"}

LowerOf == [c \in UpperChars |-> Ch(LOWER, CHOOSE i \in 1..Len(UPPER) : Ch(UPPER, i) = c)]

IsDigit(c) == c \in DigitChars

IsSpace(c) == c = " "

IsWordChar(c) == c \in WordChars

LowerChar(c) == IF c \in UpperChars THEN LowerOf[c] ELSE c

RECURSIVE str_lower(_)
str_lower(s) ==
    IF s = "" THEN "" ELSE LowerChar(Ch(s, 1)) \o str_lower(SubSeq(s, 2, Len(s)))

RECURSIVE str_lstrip(_)
str_lstrip(s) ==
    IF s # "" /\ IsSpace(Ch(s, 1)) THEN str_lstrip(SubSeq(s, 2, Len(s))) ELSE s

RECURSIVE str_rstrip(_)
str_rstrip(s) ==
    IF s # "" /\ IsSpace(Ch(s, Len(s))) THEN str_rstrip(SubSeq(s, 1, Len(s) - 1)) ELSE s

str_strip(s) == str_rstrip(str_lstrip(s))

\* Python's  sub in s
str_in(sub, s) ==
    \E i \in 0..(Len(s) - Len(sub)) : SubSeq(s, i + 1, i + Len(sub)) = sub

\* Python's  " ".join(parts)
RECURSIVE str_join(_)
str_join(parts) ==
    IF Len(parts) = 0 THEN ""
    ELSE IF Len(parts) = 1 THEN parts[1]
    ELSE parts[1] \o " " \o str_join(Tail(parts))

\* Python's  "".join(parts)
RECURSIVE str_concat(_)
str_concat(parts) ==
    IF Len(parts) = 0 THEN "" ELSE parts[1] \o str_concat(Tail(parts))

\* The indices 1..n for which Keep holds, in increasing order.
SelectIdx(n, Keep(_)) == SelectSeq([i \in 1..n |-> i], Keep)

Min(S) == CHOOSE m \in S : \A k \in S : m <= k

Max(S) == CHOOSE m \in S : \A k \in S : m >= k

Range(seq) == {seq[i] : i \in 1..Len(seq)}

(***************************************************************************)
(* The compiled regular expressions.  A pattern is a sequence of           *)
(* alternatives; an alternative is a sequence of items [cls, min, max]     *)
(* (a character class with a greedy bounded repetition); every pattern is  *)
(* wrapped in \b ... \b.  The matcher backtracks as re does: longest       *)
(* repetition first, alternatives in order.                                *)
(***************************************************************************)
InClass(c, cls) ==
    CASE cls = "d" -> IsDigit(c)
      [] cls = "s" -> IsSpace(c)
      [] cls = "U" -> c \in UpperChars
      [] cls = "sep" -> c \in {"-", "/", "."}

Item(cls, min, max) == [cls |-> cls, min |-> min, max |-> max]

AADHAAR_RE ==
    << << Item("d", 4, 4), Item("s", 0, 1), Item("d", 4, 4),
          Item("s", 0, 1), Item("d", 4, 4) >> >>

PAN_RE == << << Item("U", 5, 5), Item("d", 4, 4), Item("U", 1, 1) >> >>

DATE_RE ==
    << << Item("d", 1, 2), Item("sep", 1, 1), Item("d", 1, 2),
          Item("sep", 1, 1), Item("d", 2, 4) >>,
       << Item("d", 4, 4), Item("sep", 1, 1), Item("d", 1, 2),
          Item("sep", 1, 1), Item("d", 1, 2) >> >>

\* \b at offset pos (pos characters lie before it)
WordBoundary(text, pos) ==
    (pos > 0 /\ IsWordChar(Ch(text, pos)))
        # (pos < Len(text) /\ IsWordChar(Ch(text, pos + 1)))

\* End offset of the first successful match of items[k..] at pos, or -1.
RECURSIVE MatchItems(_, _, _, _)
RECURSIVE TryCount(_, _, _, _, _)
MatchItems(items, k, text, pos) ==
    IF k > Len(items)
    THEN (IF WordBoundary(text, pos) THEN pos ELSE -1)
    ELSE TryCount(items, k, text, pos, items[k].max)

TryCount(items, k, text, pos, n) ==
    IF n < items[k].min THEN -1
    ELSE IF /\ pos + n <= Len(text)
            /\ \A j \in 1..n : InClass(Ch(text, pos + j), items[k].cls)
         THEN LET r == MatchItems(items, k + 1, text, pos + n)
              IN  IF r >= 0 THEN r ELSE TryCount(items, k, text, pos, n - 1)
         ELSE TryCount(items, k, text, pos, n - 1)

RECURSIVE MatchAlts(_, _, _, _)
MatchAlts(pattern, a, text, pos) ==
    IF a > Len(pattern) THEN -1
    ELSE LET r == MatchItems(pattern[a], 1, text, pos)
         IN  IF r >= 0 THEN r ELSE MatchAlts(pattern, a + 1, text, pos)

MatchAt(pattern, text, pos) ==
    IF WordBoundary(text, pos) THEN MatchAlts(pattern, 1, text, pos) ELSE -1

\* pattern.finditer(text): the spans <<m_start, m_end>> of the
\* non-overlapping matches, left to right (0-based offsets, end exclusive).
RECURSIVE FindIterFrom(_, _, _)
FindIterFrom(pattern, text, pos) ==
    IF pos > Len(text) THEN <<>>
    ELSE LET e == MatchAt(pattern, text, pos)
         IN  IF e > pos
             THEN <<  <<pos, e>>  >> \o FindIterFrom(pattern, text, e)
             ELSE FindIterFrom(pattern, text, pos + 1)

finditer(pattern, text) == FindIterFrom(pattern, text, 0)

(***************************************************************************)
(* Static tables.  Keywords and terms written in Devanagari in the source  *)
(* are transliterated with a leading "~" (TLA+ strings are ASCII); the     *)
(* terms of the other scripts cannot occur in a text over the model's      *)
(* alphabet and are left out of the sets, which leaves the keyword sets of *)
(* tam, kan, tel and mal empty.                                            *)
(***************************************************************************)
Rect(x, y, w, h) == [x |-> x, y |-> y, w |-> w, h |-> h]

\* Fractions are kept as hundredths: 'x': 0.12 is x |-> 12.
AadhaarTemplate ==
    [name |-> Rect(12, 22, 60, 8),
     aadhaar_number |-> Rect(12, 34, 50, 8),
     address |-> Rect(12, 46, 70, 12),
     dob |-> Rect(12, 28, 40, 7)]

TEMPLATES ==
    [aadhaar |-> AadhaarTemplate,
     aadhar |-> AadhaarTemplate,
     pan |-> [pan_number |-> Rect(8, 34, 50, 9),
              name |-> Rect(8, 20, 70, 9),
              dob |-> Rect(8, 26, 50, 8)],
     passport |-> [name |-> Rect(12, 18, 60, 7),
                   passport_number |-> Rect(12, 28, 45, 7),
                   nationality |-> Rect(12, 36, 50, 6),
                   dob |-> Rect(12, 42, 40, 6)]]

NoKeywords == [name_keywords |-> {}, address_keywords |-> {}, register_keywords |-> {}]

LANGUAGE_CONFIGS ==
    [eng |-> [name_keywords |-> {"name", "candidate name", "student name",
                                 "holder", "cardholder", "full name"},
              address_keywords |-> {"address", "residential", "residence",
                                    "permanent", "house", "street", "village",
                                    "city", "state", "pincode", "pin code"},
              register_keywords |-> {"register", "regno", "reg.", "reg",
                                     "register no", "register number",
                                     "reg number", "reg num"}],
     hin |-> [name_keywords |-> {"~nam", "~pura ~nam", "~chatr ~ka ~nam",
                                 "~kardadharak ~ka ~nam"},
              address_keywords |-> {"~pata", "~nivas ~sthan", "~sthayi ~pata",
                                    "~ghar", "~marg", "~ganv", "~shahar",
                                    "~jila", "~rajya", "~pin ~kod"},
              register_keywords |-> {"~panjikaran ~sankhya",
                                     "~rajistar ~nambar", "~kram ~sankhya"}],
     tam |-> NoKeywords,
     kan |-> NoKeywords,
     tel |-> NoKeywords,
     mal |-> NoKeywords]

NON_SENSITIVE_KEYWORDS ==
    {"government of india", "govt of india", "government",
     "unique identification", "uidai", "issued by", "verify", "signature",
     "male", "female", "gender", "help", "toll free", "aadhaar",
     "identification", "authority",
     "~bharat ~sarkar", "~sarkar", "~pahchan", "~pradhikaran",
     "~jari ~kiya ~gaya", "~satyapit", "~purush", "~mahila", "~ling",
     "~madad", "~tol ~fri"}

(***************************************************************************)
(* OCR token data: the dictionary of parallel lists that                   *)
(* pytesseract.image_to_data returns.                                      *)
(***************************************************************************)
NTokens(data) == Len(data.text)

TokenBox(data, i) == <<data.left[i], data.top[i], data.width[i], data.height[i]>>

\* _merge_boxes as it would be with the widest box's width and the tallest
\* box's height.
_merge_boxes_WidestBox(boxes) ==
    IF Len(boxes) = 0 THEN <<0, 0, 0, 0>>
    ELSE <<Min({boxes[i][1] : i \in 1..Len(boxes)}),
           Min({boxes[i][2] : i \in 1..Len(boxes)}),
           Max({boxes[i][3] : i \in 1..Len(boxes)}),
           Max({boxes[i][4] : i \in 1..Len(boxes)})>>

_merge_boxes(boxes) ==
    IF Len(boxes) = 0 THEN <<0, 0, 0, 0>>
    ELSE LET xs == {boxes[i][1] : i \in 1..Len(boxes)}
             ys == {boxes[i][2] : i \in 1..Len(boxes)}
             xe == {boxes[i][1] + boxes[i][3] : i \in 1..Len(boxes)}
             ye == {boxes[i][2] + boxes[i][4] : i \in 1..Len(boxes)}
         IN  <<Min(xs), Min(ys), Max(xe) - Min(xs), Max(ye) - Min(ys)>>

\* The boxes of the tokens idxs, in that order.
BoxesOf(data, idxs) == [k \in 1..Len(idxs) |-> TokenBox(data, idxs[k])]

\* The texts of the tokens idxs, in that order.
TextsOf(data, idxs) == [k \in 1..Len(idxs) |-> data.text[idxs[k]]]

\* _words_after_keyword as it would be without indices[:max_words].
_words_after_keyword_NoLimit(i, data, max_words) ==
    LET line == data.line_num[i]
        indices == SelectIdx(NTokens(data),
                       LAMBDA j : /\ j > i
                                  /\ data.line_num[j] = line
                                  /\ str_strip(data.text[j]) # "")
    IN  [text |-> str_strip(str_join(TextsOf(data, indices))), take |-> indices]

_words_after_keyword(i, data, max_words) ==
    LET line == data.line_num[i]
        indices == SelectIdx(NTokens(data),
                       LAMBDA j : /\ j > i
                                  /\ data.line_num[j] = line
                                  /\ str_strip(data.text[j]) # "")
        take == SubSeq(indices, 1, IF Len(indices) < max_words
                                   THEN Len(indices) ELSE max_words)
    IN  [text |-> str_strip(str_join(TextsOf(data, take))), take |-> take]

\* words = [(w or "").strip() for w in data['text']]
Words(data) == [i \in 1..NTokens(data) |-> str_strip(data.text[i])]

\* The indices of the non-empty words, in stream order.
NonEmptyIdxs(data) == SelectIdx(NTokens(data), LAMBDA i : Words(data)[i] # "")

\* full_text = " ".join(text_builder)
FullText(data) ==
    LET ne == NonEmptyIdxs(data)
    IN  str_join([k \in 1..Len(ne) |-> Words(data)[ne[k]]])

\* starts: for the k-th non-empty word, (len(" ".join(text_builder)), idx)
\* with text_builder holding the k-1 non-empty words before it.
Starts(data) ==
    LET ne == NonEmptyIdxs(data)
    IN  [k \in 1..Len(ne) |->
            <<Len(str_join([m \in 1..(k - 1) |-> Words(data)[ne[m]]])), ne[k]>>]

\* token_idxs of one match m_start..m_end
TokenIdxs(data, m_start, m_end) ==
    LET st == Starts(data)
        Overlaps(k) ==
            LET start_char == st[k][1]
                end_char == start_char + Len(Words(data)[st[k][2]])
            IN  ~(end_char < m_start \/ start_char > m_end)
        ks == SelectIdx(Len(st), Overlaps)
    IN  [n \in 1..Len(ks) |-> st[ks[n]][2]]

\* One regex pass: the merged box of every match that maps to some token.
RECURSIVE SpanHits(_, _)
SpanHits(data, spans) ==
    IF Len(spans) = 0 THEN <<>>
    ELSE LET token_idxs == TokenIdxs(data, spans[1][1], spans[1][2])
         IN  (IF Len(token_idxs) > 0
              THEN << _merge_boxes(BoxesOf(data, token_idxs)) >>
              ELSE <<>>) \o SpanHits(data, Tail(spans))

RegexHits(pattern, data) == SpanHits(data, finditer(pattern, FullText(data)))

is_non_sensitive_Exact(text) ==
    str_lower(text) \in NON_SENSITIVE_KEYWORDS

is_non_sensitive(text) ==
    \E term \in NON_SENSITIVE_KEYWORDS : str_in(term, str_lower(text))

\* lowered = [(w or "").strip().lower() for w in data['text']]
Lowered(data) == [i \in 1..NTokens(data) |-> str_lower(str_strip(data.text[i]))]

\* One keyword pass over tokens i..n: for every token that contains a
\* keyword, the merged box of the words after it unless they are non-sensitive.
RECURSIVE KeywordHitsFrom(_, _, _, _)
KeywordHitsFrom(data, keywords, max_words, i) ==
    IF i > NTokens(data) THEN <<>>
    ELSE LET idxs == _words_after_keyword(i, data, max_words).take
             text == str_lower(str_join(TextsOf(data, idxs)))
         IN  (IF /\ \E kw \in keywords : str_in(kw, Lowered(data)[i])
                 /\ Len(idxs) > 0
                 /\ ~is_non_sensitive(text)
              THEN << _merge_boxes(BoxesOf(data, idxs)) >>
              ELSE <<>>) \o KeywordHitsFrom(data, keywords, max_words, i + 1)

KeywordHits(data, keywords, max_words) ==
    KeywordHitsFrom(data, keywords, max_words, 1)

\* aadhaar_keywords of the Aadhaar branch (Devanagari transliterated)
AADHAAR_KEYWORDS == {"aadhar", "aadhaar", "~adhar"}

\* Lines 249-258, the keyword loop of the Aadhaar branch: the merged box of
\* the words after an Aadhaar keyword when their concatenation has 4 digits
\* in a row.
HasFourDigits(text) ==
    \E i \in 0..(Len(text) - 4) : \A j \in 1..4 : IsDigit(Ch(text, i + j))

RECURSIVE AadhaarKeywordHitsFrom(_, _)
AadhaarKeywordHitsFrom(data, i) ==
    IF i > NTokens(data) THEN <<>>
    ELSE LET idxs == _words_after_keyword(i, data, 4).take
         IN  (IF /\ \E kw \in AADHAAR_KEYWORDS : str_in(kw, Lowered(data)[i])
                 /\ Len(idxs) > 0
                 /\ HasFourDigits(str_concat(TextsOf(data, idxs)))
              THEN << _merge_boxes(BoxesOf(data, idxs)) >>
              ELSE <<>>) \o AadhaarKeywordHitsFrom(data, i + 1)

\* primary_lang: first component of a '+'-joined code, English when unknown
RECURSIVE FirstComponent(_)
FirstComponent(lang) ==
    IF lang = "" \/ Ch(lang, 1) = "+" THEN ""
    ELSE Ch(lang, 1) \o FirstComponent(SubSeq(lang, 2, Len(lang)))

\* primary_lang as it would be if the last component were taken.
RECURSIVE LastComponent(_)
LastComponent(lang) ==
    IF lang = "" \/ Ch(lang, Len(lang)) = "+" THEN ""
    ELSE LastComponent(SubSeq(lang, 1, Len(lang) - 1)) \o Ch(lang, Len(lang))

PrimaryLang_LastComponent(lang) ==
    IF LastComponent(lang) \in DOMAIN LANGUAGE_CONFIGS THEN LastComponent(lang) ELSE "eng"

PrimaryLang(lang) ==
    LET first == FirstComponent(lang)
    IN  IF first \in DOMAIN LANGUAGE_CONFIGS THEN first ELSE "eng"

\* Pass 1 (lines 230-286): the hits of one requested field from the
\* regular expressions, with the keyword loop of the Aadhaar branch.
Pass1Hits(data, field) ==
    CASE field = "aadhaar_number" ->
            RegexHits(AADHAAR_RE, data) \o AadhaarKeywordHitsFrom(data, 1)
      [] field = "pan_number" -> RegexHits(PAN_RE, data)
      [] field = "dob" -> RegexHits(DATE_RE, data)
      [] OTHER -> <<>>

\* Pass 2 (lines 288-325): the hits of one requested field from the
\* keyword spans of the primary language.
Pass2Hits(data, field, lang) ==
    LET cfg == LANGUAGE_CONFIGS[PrimaryLang(lang)]
    IN  CASE field = "name" -> KeywordHits(data, cfg.name_keywords, 4)
          [] field = "address" -> KeywordHits(data, cfg.address_keywords, 10)
          [] field = "register_number" -> KeywordHits(data, cfg.register_keywords, 2)
          [] OTHER -> <<>>

\* The raw hit list of one requested field, before deduplication.
RawHits(data, field, lang) == Pass1Hits(data, field) \o Pass2Hits(data, field, lang)

DedupKey_Unquantised(b) == b

\* key = (x // 2, y // 2, w // 2, h // 2)
DedupKey(b) == <<b[1] \div 2, b[2] \div 2, b[3] \div 2, b[4] \div 2>>

\* The deduplication loop as it would be if it kept every box.
Deduplicate_KeepAll(boxes) == boxes

\* The deduplication loop over one hit list: first box of every key.
Deduplicate(boxes) ==
    LET First(k) == \A j \in 1..(k - 1) : DedupKey(boxes[j]) # DedupKey(boxes[k])
        ks == SelectIdx(Len(boxes), First)
    IN  [n \in 1..Len(ks) |-> boxes[ks[n]]]

\* The Aadhaar branch reads `lowered` at line 249; the function assigns it
\* only at line 289, so the read raises UnboundLocalError whenever the branch
\* is entered.
AadhaarBranchRaises(requested_fields) == "aadhaar_number" \in requested_fields

\* detect_entities_from_ocr as it would be if it blanked each token of the
\* caller's dictionary as it read it.
detect_entities_from_ocr_ConsumesText(data, requested_fields, lang) ==
    IF AadhaarBranchRaises(requested_fields)
    THEN [raised |-> TRUE, hits |-> << >>,
          data |-> [data EXCEPT !.text = [i \in 1..NTokens(data) |-> ""]]]
    ELSE [raised |-> FALSE,
          hits |-> [f \in requested_fields |-> Deduplicate(RawHits(data, f, lang))],
          data |-> [data EXCEPT !.text = [i \in 1..NTokens(data) |-> ""]]]

\* detect_entities_from_ocr: either the exception or the dictionary of
\* deduplicated box lists, one key per requested field.  data is the
\* caller's dictionary as the call leaves it: the function reads it into
\* the new list `words` (line 192) and into local tuples, and assigns to no
\* item of it.
detect_entities_from_ocr(data, requested_fields, lang) ==
    IF AadhaarBranchRaises(requested_fields)
    THEN [raised |-> TRUE, hits |-> << >>, data |-> data]
    ELSE [raised |-> FALSE,
          hits |-> [f \in requested_fields |-> Deduplicate(RawHits(data, f, lang))],
          data |-> data]

(***************************************************************************)
(* Inputs of the model.                                                    *)
(***************************************************************************)
\* Sequences over S of length at most n.
SeqsUpTo(S, n) == UNION {[1..k -> S] : k \in 0..n}

\* The iteration orders of a set: the sequences listing S once each.
Orders(S) ==
    {p \in [1..Cardinality(S) -> S] : \A i, j \in 1..Cardinality(S) : p[i] = p[j] => i = j}

\* Token geometry of a page: the i-th token of the stream lies in column i
\* of its line, as wide as its text.
MkData(texts, lines) ==
    [text |-> texts,
     line_num |-> lines,
     left |-> [i \in 1..Len(texts) |-> 60 * i],
     top |-> [i \in 1..Len(texts) |-> 30 * lines[i]],
     width |-> [i \in 1..Len(texts) |-> 4 * Len(texts[i]) + 2],
     height |-> [i \in 1..Len(texts) |-> 12]]

\* Line numbers of a stream of n tokens: lines 1..maxline, never decreasing.
LineNums(n, maxline) ==
    {l \in [1..n -> 1..maxline] : \A i \in 1..n : i > 1 => l[i] >= l[i - 1]}

\* The token streams of at most n tokens with texts in vocab.
Streams(vocab, n, maxline) ==
    {MkData(t, l) : <<t, l>> \in
        UNION {[1..k -> vocab] \X LineNums(k, maxline) : k \in 0..n}}

OcrVocab == {"Name:", "John", "01/02/1990"}

\* What the OCR engine may return for a page: one line of tokens.
OcrStreams == Streams(OcrVocab, MaxOcrTokens, 1)

DocTypes == {"aadhaar", "Aadhar", "pan", "unknown"}

FieldNames == <<"Name", "aadhaar_number", "dob", "name">>

\* The field lists a caller passes: at most n names, each at most once, in
\* the order of FieldNames (the code uses a list only through membership).
FieldLists(n) ==
    {[k \in 1..Len(ix) |-> FieldNames[ix[k]]] :
        ix \in {jx \in SeqsUpTo(1..Len(FieldNames), n) :
                    \A a, b \in 1..Len(jx) : a < b => jx[a] < jx[b]}}

Langs == {"eng"}

\* An image file: unreadable, or rows x cols pixels.
Images ==
    {[readable |-> FALSE, cols |-> 0, rows |-> 0],
     [readable |-> TRUE, cols |-> 200, rows |-> 100],
     [readable |-> TRUE, cols |-> 1600, rows |-> 1000]}

NoData == MkData(<< >>, << >>)

(***************************************************************************)
(* redact_image: its steps as pure operators.                              *)
(***************************************************************************)
\* preprocess_image_for_ocr resizes by 1.5 when the longer side is < 1600.
ScaledSize(n, cols, rows) ==
    IF (IF cols > rows THEN cols ELSE rows) < 1600 THEN (3 * n) \div 2 ELSE n

\* req_fields = set([f.lower() for f in (permanent_fields + temporary_fields)])
\* plus aadhaar_number on an Aadhaar document
ReqFields(doc_type, permanent_fields, temporary_fields) ==
    {str_lower(f) : f \in Range(permanent_fields \o temporary_fields)}
        \cup (IF str_lower(doc_type) \in {"aadhar", "aadhaar"}
              THEN {"aadhaar_number"} ELSE {})

DocTypeNormalized(doc_type) ==
    IF str_lower(doc_type) \in {"aadhar", "aadhaar"} THEN "aadhaar"
    ELSE str_lower(doc_type)

\* "black" if field in permanent_fields else "yellow"
RedactionStyle(field, permanent_fields) ==
    IF field \in Range(permanent_fields) THEN "black" ELSE "yellow"

\* draw_redactions called by one tier for one field: one paint per box.
\* field and tier record which branch of redact_image painted.
Paints(field, tier, boxes, style) ==
    [k \in 1..Len(boxes) |->
        [field |-> field, tier |-> tier, box |-> boxes[k], style |-> style]]

\* Tier 1 as it would be if only the first field visited were drawn.
Tier1Paints_FirstVisited(boxes_by_field, order, permanent_fields) ==
    IF Len(order) = 0 \/ Len(boxes_by_field[order[1]]) = 0 THEN <<>>
    ELSE Paints(order[1], 1, boxes_by_field[order[1]],
                RedactionStyle(order[1], permanent_fields))

\* Tier 1 loop over boxes_by_field.items(), visiting the fields in order.
RECURSIVE Tier1Paints(_, _, _)
Tier1Paints(boxes_by_field, order, permanent_fields) ==
    IF Len(order) = 0 THEN <<>>
    ELSE (IF Len(boxes_by_field[order[1]]) > 0
          THEN Paints(order[1], 1, boxes_by_field[order[1]],
                      RedactionStyle(order[1], permanent_fields))
          ELSE <<>>)
         \o Tier1Paints(boxes_by_field, Tail(order), permanent_fields)

Tier1Redacted(boxes_by_field) ==
    {f \in DOMAIN boxes_by_field : Len(boxes_by_field[f]) > 0}

\* The template fraction scaled as it would be with w and h exchanged.
TemplateBox_Transposed(box_norm, w, h) ==
    << (box_norm.x * h) \div 100, (box_norm.y * w) \div 100,
       (box_norm.w * h) \div 100, (box_norm.h * w) \div 100 >>

\* int(box_norm[...] * w): the template fraction scaled to pixels
\* The template rectangle as it would be if it always ran to the image's
\* full width and height.
TemplateBox_FullSize(box_norm, w, h) ==
    << (box_norm.x * w) \div 100, (box_norm.y * h) \div 100, w, h >>

TemplateBox(box_norm, w, h) ==
    << (box_norm.x * w) \div 100, (box_norm.y * h) \div 100,
       (box_norm.w * w) \div 100, (box_norm.h * h) \div 100 >>

\* Tier 2 as it would be without the "not in fields_redacted" test.
RECURSIVE Tier2Paints_IgnoringRedacted(_, _, _, _, _, _)
Tier2Paints_IgnoringRedacted(doc_type_normalized, order, fields_redacted, permanent_fields, w, h) ==
    IF Len(order) = 0 \/ doc_type_normalized \notin DOMAIN TEMPLATES THEN <<>>
    ELSE LET template_fields == TEMPLATES[doc_type_normalized]
             f == order[1]
         IN  (IF f \in DOMAIN template_fields
              THEN Paints(f, 2, << TemplateBox(template_fields[f], w, h) >>,
                          RedactionStyle(f, permanent_fields))
              ELSE <<>>)
             \o Tier2Paints_IgnoringRedacted(doc_type_normalized, Tail(order),
                            fields_redacted, permanent_fields, w, h)

\* Tier 2 loop over req_fields, visiting the fields in order.
RECURSIVE Tier2Paints(_, _, _, _, _, _)
Tier2Paints(doc_type_normalized, order, fields_redacted, permanent_fields, w, h) ==
    IF Len(order) = 0 \/ doc_type_normalized \notin DOMAIN TEMPLATES THEN <<>>
    ELSE LET template_fields == TEMPLATES[doc_type_normalized]
             f == order[1]
         IN  (IF f \in DOMAIN template_fields /\ f \notin fields_redacted
              THEN Paints(f, 2, << TemplateBox(template_fields[f], w, h) >>,
                          RedactionStyle(f, permanent_fields))
              ELSE <<>>)
             \o Tier2Paints(doc_type_normalized, Tail(order), fields_redacted,
                            permanent_fields, w, h)

\* The last-resort rectangle as it would be if drawn for any requested
\* field that no OCR box has redacted, under any document type.
Tier3Paints_AnyField(doc_type_normalized, req_fields, fields_redacted, permanent_fields, w, h) ==
    IF req_fields \ fields_redacted # {}
    THEN Paints(CHOOSE f \in req_fields \ fields_redacted : TRUE, 3,
                << << (w * 10) \div 100, (h * 34) \div 100,
                      (w * 80) \div 100, (h * 8) \div 100 >> >>,
                RedactionStyle(CHOOSE f \in req_fields \ fields_redacted : TRUE,
                               permanent_fields))
    ELSE <<>>

\* The last-resort rectangle for aadhaar_number
Tier3Paints(doc_type_normalized, req_fields, fields_redacted, permanent_fields, w, h) ==
    IF /\ doc_type_normalized = "aadhaar"
       /\ "aadhaar_number" \in req_fields
       /\ "aadhaar_number" \notin fields_redacted
    THEN Paints("aadhaar_number", 3,
                << << (w * 10) \div 100, (h * 34) \div 100,
                      (w * 80) \div 100, (h * 8) \div 100 >> >>,
                RedactionStyle("aadhaar_number", permanent_fields))
    ELSE <<>>

\* What redact_image returns: the image, given by its size and the paint
\* operations applied to it in order (box and style; the image carries no
\* record of fields or tiers).
ImageOf(w, h, drawn) ==
    [w |-> w, h |-> h,
     paints |-> [k \in 1..Len(drawn) |-> [box |-> drawn[k].box, style |-> drawn[k].style]]]

(***************************************************************************)
(* State.  Every operation has one variable holding its activation frame:  *)
(* a record of its arguments, its locals (named as in the source) and pc,  *)
(* the place the call has reached.                                         *)
(***************************************************************************)
VARIABLES
    ri_frame,   \* a call of redact_image
    det_frame,  \* a direct call of detect_entities_from_ocr
    dd_frame,   \* the deduplication loop run on a raw box list
    enh_frame,  \* a call of enhance_document_fields
    mb_frame,  \* a call of _merge_boxes
    ri_first,  \* the finished first run of a request that is run twice
    dr_frame,  \* a call of draw_redactions
    cu_frame,  \* a call of apply_custom_redactions
    ai_frame,  \* a call of apply_image_redactions
    it_frame,  \* a call of apply_image_text_redactions
    pr_frame,  \* the calls of apply_pdf_redactions, one per request
    files      \* the files of the working directory, by name

vars == <<ri_frame, det_frame, dd_frame, enh_frame, mb_frame, ri_first, dr_frame, cu_frame, ai_frame, it_frame, pr_frame, files>>

\* What a step of one operation leaves alone: the frames of the others.
ri_others == <<det_frame, dd_frame, enh_frame, mb_frame, ri_first, dr_frame, cu_frame, ai_frame, it_frame, pr_frame, files>>

det_others == <<ri_frame, dd_frame, enh_frame, mb_frame, ri_first, dr_frame, cu_frame, ai_frame, it_frame, pr_frame, files>>

dd_others == <<ri_frame, det_frame, enh_frame, mb_frame, ri_first, dr_frame, cu_frame, ai_frame, it_frame, pr_frame, files>>

enh_others == <<ri_frame, det_frame, dd_frame, mb_frame, ri_first, dr_frame, cu_frame, ai_frame, it_frame, pr_frame, files>>

mb_others == <<ri_frame, det_frame, dd_frame, enh_frame, ri_first, dr_frame, cu_frame, ai_frame, it_frame, pr_frame, files>>

\* What a second run of redact_image leaves alone.
twice_others == <<det_frame, dd_frame, enh_frame, mb_frame, dr_frame, cu_frame, ai_frame, it_frame, pr_frame, files>>

dr_others == <<ri_frame, det_frame, dd_frame, enh_frame, mb_frame, ri_first, cu_frame, ai_frame, it_frame, pr_frame, files>>

cu_others == <<ri_frame, det_frame, dd_frame, enh_frame, mb_frame, ri_first, dr_frame, ai_frame, it_frame, pr_frame, files>>

ai_others == <<ri_frame, det_frame, dd_frame, enh_frame, mb_frame, ri_first, dr_frame, cu_frame, it_frame, pr_frame, files>>

it_others == <<ri_frame, det_frame, dd_frame, enh_frame, mb_frame, ri_first, dr_frame, cu_frame, ai_frame, pr_frame, files>>

\* What apply_pdf_redactions leaves alone: all but its frames and the files.
pr_others == <<ri_frame, det_frame, dd_frame, enh_frame, mb_frame, ri_first, dr_frame, cu_frame, ai_frame, it_frame>>

(***************************************************************************)
(* redact_image                                                            *)
(***************************************************************************)
RiIdle ==
    [pc |-> "idle", doc_type |-> "", permanent_fields |-> << >>,
     temporary_fields |-> << >>, lang |-> "", image |-> [readable |-> FALSE, cols |-> 0, rows |-> 0],
     w |-> 0, h |-> 0, req_fields |-> {}, req_order |-> << >>,
     doc_type_normalized |-> "", data |-> NoData, boxes_by_field |-> << >>,
     fields_redacted |-> {}, drawn |-> << >>, error |-> "",
     result |-> ImageOf(0, 0, << >>)]

\* A caller invokes redact_image(image_path, doc_type, permanent_fields,
\* temporary_fields, lang).
RiCall ==
    /\ ri_frame.pc = "idle"
    /\ \E doc_type \in DocTypes, lang \in Langs, image \in Images,
          permanent_fields \in FieldLists(MaxFields),
          temporary_fields \in FieldLists(MaxFields) :
            /\ Len(permanent_fields) + Len(temporary_fields) <= MaxFields
            /\ ri_frame' = [RiIdle EXCEPT
                    !.pc = "preprocess", !.doc_type = doc_type, !.lang = lang,
                    !.image = image, !.permanent_fields = permanent_fields,
                    !.temporary_fields = temporary_fields]
    /\ UNCHANGED ri_others

\* Lines 376-386: read and scale the image, build req_fields, normalise the
\* document type.  req_order is the iteration order of the set req_fields.
RiPreprocess ==
    /\ ri_frame.pc = "preprocess"
    /\ IF ~ri_frame.image.readable
       THEN ri_frame' = [ri_frame EXCEPT !.pc = "raised", !.error = "FileNotFoundError"]
       ELSE LET req == ReqFields(ri_frame.doc_type, ri_frame.permanent_fields,
                                 ri_frame.temporary_fields)
            IN  \E order \in Orders(req) :
                    ri_frame' = [ri_frame EXCEPT
                        !.pc = "ocr",
                        !.w = ScaledSize(ri_frame.image.cols, ri_frame.image.cols, ri_frame.image.rows),
                        !.h = ScaledSize(ri_frame.image.rows, ri_frame.image.cols, ri_frame.image.rows),
                        !.req_fields = req,
                        !.req_order = order,
                        !.doc_type_normalized = DocTypeNormalized(ri_frame.doc_type)]
    /\ UNCHANGED ri_others

\* Line 389: the OCR engine returns a token stream.
RiOcr ==
    /\ ri_frame.pc = "ocr"
    /\ \E data \in OcrStreams :
            ri_frame' = [ri_frame EXCEPT !.pc = "detect", !.data = data]
    /\ UNCHANGED ri_others

\* Line 396: boxes_by_field = detect_entities_from_ocr(data, req_fields, lang)
RiDetect ==
    /\ ri_frame.pc = "detect"
    /\ LET r == detect_entities_from_ocr(ri_frame.data, ri_frame.req_fields, ri_frame.lang)
       IN  IF r.raised
           THEN ri_frame' = [ri_frame EXCEPT !.pc = "raised", !.error = "UnboundLocalError",
                                             !.data = r.data]
           ELSE ri_frame' = [ri_frame EXCEPT !.pc = "tier1", !.boxes_by_field = r.hits,
                                             !.data = r.data]
    /\ UNCHANGED ri_others

\* Lines 398-406: draw the OCR-detected boxes.
RiTier1 ==
    /\ ri_frame.pc = "tier1"
    /\ ri_frame' = [ri_frame EXCEPT
            !.pc = "tier2",
            !.drawn = @ \o Tier1Paints(ri_frame.boxes_by_field, ri_frame.req_order,
                                       ri_frame.permanent_fields),
            !.fields_redacted = Tier1Redacted(ri_frame.boxes_by_field)]
    /\ UNCHANGED ri_others

\* Lines 408-421: draw the template rectangle of every field not detected.
RiTier2 ==
    /\ ri_frame.pc = "tier2"
    /\ ri_frame' = [ri_frame EXCEPT
            !.pc = "tier3",
            !.drawn = @ \o Tier2Paints(ri_frame.doc_type_normalized, ri_frame.req_order,
                                       ri_frame.fields_redacted, ri_frame.permanent_fields,
                                       ri_frame.w, ri_frame.h)]
    /\ UNCHANGED ri_others

\* Lines 423-431: the last-resort rectangle.
RiTier3 ==
    /\ ri_frame.pc = "tier3"
    /\ ri_frame' = [ri_frame EXCEPT
            !.pc = "return",
            !.drawn = @ \o Tier3Paints(ri_frame.doc_type_normalized, ri_frame.req_fields,
                                       ri_frame.fields_redacted, ri_frame.permanent_fields,
                                       ri_frame.w, ri_frame.h)]
    /\ UNCHANGED ri_others

\* Line 433: return the image.
RiReturn ==
    /\ ri_frame.pc = "return"
    /\ ri_frame' = [ri_frame EXCEPT
            !.pc = "returned",
            !.result = ImageOf(ri_frame.w, ri_frame.h, ri_frame.drawn)]
    /\ UNCHANGED ri_others

(***************************************************************************)
(* detect_entities_from_ocr, called on its own and followed pass by pass.  *)
(***************************************************************************)
DetVocab == {"Name:", "John", "Male", "1234", "5678", "9012", ""}

DetStreams == Streams(DetVocab, MaxTokens, 2)

DetFields == {"name", "aadhaar_number", "dob"}

DetLangs == {"eng", "hin+eng"}

DetIdle ==
    [pc |-> "idle", data |-> NoData, requested_fields |-> {}, lang |-> "",
     hits |-> << >>, error |-> "", result |-> << >>]

\* A caller invokes detect_entities_from_ocr(data, requested_fields, lang).
DetCall ==
    /\ det_frame.pc = "idle"
    /\ \E data \in DetStreams, requested_fields \in SUBSET DetFields, lang \in DetLangs :
            /\ Cardinality(requested_fields) <= 2
            /\ det_frame' = [DetIdle EXCEPT
                    !.pc = "pass1", !.data = data,
                    !.requested_fields = requested_fields, !.lang = lang,
                    !.hits = [f \in requested_fields |-> << >>]]
    /\ UNCHANGED det_others

\* Lines 211-286: the regex pass; the Aadhaar branch raises.
DetPass1 ==
    /\ det_frame.pc = "pass1"
    /\ IF AadhaarBranchRaises(det_frame.requested_fields)
       THEN det_frame' = [det_frame EXCEPT !.pc = "raised", !.error = "UnboundLocalError"]
       ELSE det_frame' = [det_frame EXCEPT
                !.pc = "pass2",
                !.hits = [f \in det_frame.requested_fields |->
                            det_frame.hits[f] \o Pass1Hits(det_frame.data, f)]]
    /\ UNCHANGED det_others

\* Lines 288-325: the keyword pass.
DetPass2 ==
    /\ det_frame.pc = "pass2"
    /\ det_frame' = [det_frame EXCEPT
            !.pc = "dedup",
            !.hits = [f \in det_frame.requested_fields |->
                        det_frame.hits[f] \o Pass2Hits(det_frame.data, f, det_frame.lang)]]
    /\ UNCHANGED det_others

\* Lines 327-336: deduplicate every hit list.
DetDedup ==
    /\ det_frame.pc = "dedup"
    /\ det_frame' = [det_frame EXCEPT
            !.pc = "return",
            !.hits = [f \in det_frame.requested_fields |-> Deduplicate(det_frame.hits[f])]]
    /\ UNCHANGED det_others

\* Line 343: return hits.
DetReturn ==
    /\ det_frame.pc = "return"
    /\ det_frame' = [det_frame EXCEPT !.pc = "returned", !.result = det_frame.hits]
    /\ UNCHANGED det_others

(***************************************************************************)
(* detect_entities_from_ocr called with the language codes a request can  *)
(* carry, on streams of keyword tokens of two languages.                   *)
(***************************************************************************)
LangVocab == {"Name:", "~nam", "City", "~ghar", "Reg"}

LangStreams == Streams(LangVocab, MaxTokens, 1)

LangFields == {"name", "address", "register_number", "aadhaar_number"}

LangCodes == {"eng", "hin+eng", "eng+hin", "fra+hin", "tam", ""}

\* A caller invokes detect_entities_from_ocr(data, {field}, lang=lang).
DetCallLang ==
    /\ det_frame.pc = "idle"
    /\ \E data \in LangStreams, field \in LangFields, lang \in LangCodes :
            det_frame' = [DetIdle EXCEPT
                !.pc = "pass1", !.data = data,
                !.requested_fields = {field}, !.lang = lang,
                !.hits = [f \in {field} |-> << >>]]
    /\ UNCHANGED det_others

(***************************************************************************)
(* detect_entities_from_ocr on long lines: a keyword token and up to       *)
(* MaxWords - 1 tokens after it, all "A" but at most one, which is empty   *)
(* or the non-sensitive "Male"; the stream is one line or breaks into two. *)
(***************************************************************************)
MaxWords == 12

WordKeywords == {"Name:", "Address", "Reg"}

WordTexts(n) ==
    {[i \in 1..n |-> IF i = 1 THEN kw ELSE IF i = odd THEN other ELSE "A"] :
        kw \in WordKeywords, odd \in 1..n, other \in {"", "Male"}}

WordStreams ==
    UNION {{MkData(t, l) : t \in WordTexts(n), l \in LineNums(n, 2)} : n \in 1..MaxWords}

WordFields == {"name", "address", "register_number"}

\* A caller invokes detect_entities_from_ocr(data, {field}, lang='eng').
DetCallWords ==
    /\ det_frame.pc = "idle"
    /\ \E data \in WordStreams, field \in WordFields :
            det_frame' = [DetIdle EXCEPT
                !.pc = "pass1", !.data = data,
                !.requested_fields = {field}, !.lang = "eng",
                !.hits = [f \in {field} |-> << >>]]
    /\ UNCHANGED det_others

(***************************************************************************)
(* detect_entities_from_ocr on streams with a PAN, a date, and two dates   *)
(* in one token, among other tokens.                                       *)
(***************************************************************************)
SpanVocab == {"ABCDE1234F", "01/02/1990", "1/2/11,3/4/12", "John", ""}

SpanStreams == Streams(SpanVocab, MaxTokens, 2)

\* A caller invokes detect_entities_from_ocr(data, {field}, lang='eng') for
\* pan_number or dob.
DetCallSpan ==
    /\ det_frame.pc = "idle"
    /\ \E data \in SpanStreams, field \in {"pan_number", "dob"} :
            det_frame' = [DetIdle EXCEPT
                !.pc = "pass1", !.data = data,
                !.requested_fields = {field}, !.lang = "eng",
                !.hits = [f \in {field} |-> << >>]]
    /\ UNCHANGED det_others

(***************************************************************************)
(* ai_analysis.py.  Python values that cross the classifier bridge are     *)
(* tagged: a str, an int, None, a list, or a dict given by its items in    *)
(* insertion order.                                                        *)
(***************************************************************************)
JStr(s) == [t |-> "str", v |-> s]

JNum(n) == [t |-> "num", v |-> n]

JNull == [t |-> "null"]

JList(items) == [t |-> "list", v |-> items]

JDict(items) == [t |-> "dict", v |-> items]

\* key in d
JHas(d, key) == \E k \in 1..Len(d.v) : d.v[k][1] = key

\* d.get(key, default)
JGet(d, key, default) ==
    IF JHas(d, key)
    THEN d.v[CHOOSE k \in 1..Len(d.v) : d.v[k][1] = key][2]
    ELSE default

(***************************************************************************)
(* The patterns of analyze_with_regex.  A pattern is a sequence of items:  *)
(* a character set with a repetition (greedy, or lazy for .*?), an ordered *)
(* alternation of literals, an optional group, or \b.  AllEnds lists the   *)
(* offsets at which a match of items[k..] from pos can end, in the order   *)
(* in which re tries them; re.search takes the first.  The alternatives    *)
(* written in other scripts cannot occur in a text over the model's        *)
(* alphabet and are left out.                                              *)
(***************************************************************************)
INF == -1

LowerChars == CharSet(LOWER)

Letters == UpperChars \cup LowerChars

Whitespace == {" "}

Alphabet == WordChars \cup CharSet(" :/.-#@,+%[]{}\"")

ReSet(set, min, max) == [k |-> "set", set |-> set, min |-> min, max |-> max, lazy |-> FALSE]

ReLazy(set, min, max) == [k |-> "set", set |-> set, min |-> min, max |-> max, lazy |-> TRUE]

ReLit(alts, icase) == [k |-> "lit", alts |-> alts, icase |-> icase]

ReOpt(items) == [k |-> "opt", items |-> items]

ReB == [k |-> "b"]

\* The number of characters of text from offset pos on that lie in set, at
\* most cap.
RECURSIVE RunLen(_, _, _, _)
RunLen(set, text, pos, cap) ==
    IF cap = 0 \/ pos >= Len(text) \/ Ch(text, pos + 1) \notin set THEN 0
    ELSE 1 + RunLen(set, text, pos + 1, cap - 1)

LitAt(lit, icase, text, pos) ==
    /\ pos + Len(lit) <= Len(text)
    /\ LowerChar(Ch(text, pos + 1)) = LowerChar(Ch(lit, 1))
    /\ IF icase
       THEN str_lower(SubSeq(text, pos + 1, pos + Len(lit))) = str_lower(lit)
       ELSE SubSeq(text, pos + 1, pos + Len(lit)) = lit

RECURSIVE AllEnds(_, _, _, _)
RECURSIVE EndsOver(_, _, _, _, _)
RECURSIVE LitEnds(_, _, _, _)
\* The ends of a repetition that can take up to run characters from pos:
\* longest first, or shortest first where it is lazy.
SetEnds(it, pos, run) ==
    [n \in 1..(IF run < it.min THEN 0 ELSE run - it.min + 1) |->
        IF it.lazy THEN pos + it.min + n - 1 ELSE pos + run - n + 1]

ItemEnds(it, text, pos) ==
    CASE it.k = "set" ->
            SetEnds(it, pos, RunLen(it.set, text, pos,
                                    IF it.max = INF THEN Len(text) ELSE it.max))
      [] it.k = "lit" -> LitEnds(it, 1, text, pos)
      [] it.k = "opt" -> AllEnds(it.items, 1, text, pos) \o <<pos>>
      [] it.k = "b" -> IF WordBoundary(text, pos) THEN <<pos>> ELSE << >>

LitEnds(it, a, text, pos) ==
    IF a > Len(it.alts) THEN << >>
    ELSE (IF LitAt(it.alts[a], it.icase, text, pos)
          THEN <<pos + Len(it.alts[a])>> ELSE << >>)
         \o LitEnds(it, a + 1, text, pos)

EndsOver(items, k, text, cands, j) ==
    IF j > Len(cands) THEN << >>
    ELSE AllEnds(items, k, text, cands[j]) \o EndsOver(items, k, text, cands, j + 1)

AllEnds(items, k, text, pos) ==
    IF k > Len(items) THEN <<pos>>
    ELSE EndsOver(items, k + 1, text, ItemEnds(items[k], text, pos), 1)

\* A pattern with one capturing group at its end: the first
\* <<group start, group end>> in the order re tries them, or << >>.
FirstEnd(start, ends, otherwise) ==
    IF Len(ends) > 0 THEN <<start, ends[1]>> ELSE otherwise

RECURSIVE GroupOver(_, _, _, _)
GroupOver(group, text, starts, j) ==
    IF j > Len(starts) THEN << >>
    ELSE FirstEnd(starts[j], AllEnds(group, 1, text, starts[j]),
                  GroupOver(group, text, starts, j + 1))

\* re.finditer(pattern, text): the matches [start, end, g_start, g_end],
\* left to right and non-overlapping; a pattern without a group has
\* group = << >> and g_start, g_end span the whole match.
RECURSIVE ReFindIterFrom(_, _, _, _)
\* g is the match tried at pos; an empty match is passed over.
ReFindIterStep(prefix, group, text, pos, g) ==
    IF Len(g) > 0 /\ g[2] > pos
    THEN << [start |-> pos, end |-> g[2],
             g_start |-> IF Len(group) = 0 THEN pos ELSE g[1],
             g_end |-> g[2]] >>
         \o ReFindIterFrom(prefix, group, text, g[2])
    ELSE ReFindIterFrom(prefix, group, text, pos + 1)

ReFindIterFrom(prefix, group, text, pos) ==
    IF pos > Len(text) THEN << >>
    ELSE ReFindIterStep(prefix, group, text, pos,
                        GroupOver(group, text, AllEnds(prefix, 1, text, pos), 1))

re_finditer(prefix, group, text) == ReFindIterFrom(prefix, group, text, 0)

\* [\s\:]+ after a label
LabelSep == ReSet(Whitespace \cup {":"}, 1, INF)

Label(alts) == <<ReLit(alts, TRUE), LabelSep>>

NAME_PATTERN ==
    <<ReB, ReSet(UpperChars, 1, 1), ReSet(LowerChars, 1, INF), ReSet({" "}, 1, 1),
      ReSet(UpperChars, 1, 1), ReSet(LowerChars, 1, INF), ReB>>

NAME_ALT_PATTERN ==
    <<ReB, ReSet(UpperChars, 1, 1), ReSet(LowerChars, 2, INF), ReSet({" "}, 1, INF),
      ReSet(UpperChars, 1, 1), ReSet(LowerChars, 2, INF), ReB>>

name_label_patterns ==
    << [prefix |-> Label(<<"Name">>),
        group |-> <<ReSet(WordChars \cup Whitespace, 1, INF)>>],
       [prefix |-> Label(<<"S/o", "D/o", "W/o", "C/o">>),
        group |-> <<ReSet(WordChars \cup Whitespace, 1, INF)>>],
       [prefix |-> Label(<<"Father", "Mother", "Guardian">>),
        group |-> <<ReSet(WordChars \cup Whitespace, 1, INF)>>] >>

AADHAR_PATTERN ==
    <<ReB, ReSet(DigitChars, 4, 4), ReSet(Whitespace, 0, 1), ReSet(DigitChars, 4, 4),
      ReSet(Whitespace, 0, 1), ReSet(DigitChars, 4, 4), ReB>>

AADHAR_ALT_PATTERN ==
    <<ReB, ReSet(DigitChars, 3, 4), ReSet(Whitespace \cup {"-"}, 0, 1),
      ReSet(DigitChars, 3, 4), ReSet(Whitespace \cup {"-"}, 0, 1),
      ReSet(DigitChars, 3, 4), ReB>>

aadhar_label_patterns ==
    << [prefix |-> Label(<<"Aadhar", "Aadhaar">>),
        group |-> <<ReSet(DigitChars \cup Whitespace, 10, INF)>>],
       [prefix |-> Label(<<"UID", "VID">>),
        group |-> <<ReSet(DigitChars \cup Whitespace, 10, INF)>>] >>

PAN_PATTERN ==
    <<ReB, ReSet(UpperChars, 5, 5), ReSet(DigitChars, 4, 4), ReSet(UpperChars, 1, 1), ReB>>

EMAIL_PATTERN ==
    <<ReB, ReSet(Letters \cup DigitChars \cup CharSet("._%+-"), 1, INF), ReSet({"@"}, 1, 1),
      ReSet(Letters \cup DigitChars \cup CharSet(".-"), 1, INF), ReSet({"."}, 1, 1),
      ReSet(Letters, 2, INF), ReB>>

PHONE_PATTERN == <<ReB, ReSet(DigitChars, 10, 10), ReB>>

PHONE_ALT_PATTERN ==
    <<ReB, ReSet({"+"}, 0, 1), ReSet(DigitChars, 1, 3), ReSet(Whitespace \cup {"-"}, 0, 1),
      ReSet(DigitChars, 3, 5), ReSet(Whitespace \cup {"-"}, 0, 1),
      ReSet(DigitChars, 3, 5), ReB>>

phone_label_patterns ==
    << [prefix |-> Label(<<"Phone", "Mobile", "Tel">>),
        group |-> <<ReSet(DigitChars \cup Whitespace \cup CharSet("+-"), 8, INF)>>] >>

DateSep == CharSet("-/.")

DOB_PATTERN ==
    <<ReB, ReSet(DigitChars, 1, 2), ReSet(DateSep, 1, 1), ReSet(DigitChars, 1, 2),
      ReSet(DateSep, 1, 1), ReSet(DigitChars, 2, 4), ReB>>

DOB_ALT_PATTERN ==
    <<ReB, ReSet(DigitChars, 4, 4), ReSet(DateSep, 1, 1), ReSet(DigitChars, 1, 2),
      ReSet(DateSep, 1, 1), ReSet(DigitChars, 1, 2), ReB>>

dob_label_patterns ==
    << [prefix |-> Label(<<"DOB", "Date of Birth">>),
        group |-> <<ReSet(DigitChars \cup Whitespace \cup DateSep, 6, INF)>>],
       [prefix |-> Label(<<"Born on", "Birth Date">>),
        group |-> <<ReSet(DigitChars \cup Whitespace \cup DateSep, 6, INF)>>] >>

ADDRESS_PATTERN ==
    <<ReB, ReLit(<<"No", "#">>, TRUE), ReSet({"."}, 0, 1), ReSet(Whitespace, 0, INF),
      ReSet(DigitChars, 1, INF), ReSet(Whitespace, 0, INF), ReSet({","}, 0, 1),
      ReLazy(Alphabet, 0, INF),
      ReLit(<<"Road", "Street", "Ave", "Avenue", "Blvd", "Boulevard", "Lane",
              "Drive", "Dr">>, TRUE),
      ReLazy(Alphabet, 0, INF), ReOpt(<<ReSet(DigitChars, 5, 6)>>)>>

AddressChars == WordChars \cup Whitespace \cup CharSet("-.,/#")

address_label_patterns ==
    << [prefix |-> Label(<<"Address", "Addr">>),
        group |-> <<ReSet(AddressChars, 10, INF)>>],
       [prefix |-> Label(<<"Residence", "Res.", "Home">>),
        group |-> <<ReSet(AddressChars, 10, INF)>>] >>

(***************************************************************************)
(* analyze_with_regex (lines 210-431).                                     *)
(***************************************************************************)
Span(text, category, confidence, start, end) ==
    JDict(<< <<"text", JStr(text)>>, <<"category", JStr(category)>>,
             <<"confidence", JNum(confidence)>>,
             <<"position", JDict(<< <<"start", JNum(start)>>, <<"end", JNum(end)>> >>)>> >>)

\* field["text"] of a span built above
FieldText(field) == JGet(field, "text", JNull).v

\* A finditer loop of lines 227-417: its patterns in list order, whether it
\* appends match.group(1).strip() where that is not blank (label) or
\* match.group(), the category and confidence of what it appends, and its
\* test on the match: none ("all"), at least 10 characters besides spaces and
\* dashes ("digits"), or more than 10 characters ("long").
Whole(pattern) == << [prefix |-> pattern, group |-> << >>] >>

Loop(patterns, label, category, confidence, keep) ==
    [patterns |-> patterns, label |-> label, category |-> category,
     confidence |-> confidence, keep |-> keep]

regex_loops ==
    << Loop(Whole(NAME_PATTERN), FALSE, "Name", 85, "all"),
       Loop(Whole(NAME_ALT_PATTERN), FALSE, "Name", 75, "all"),
       Loop(name_label_patterns, TRUE, "Name", 90, "all"),
       Loop(Whole(AADHAR_PATTERN), FALSE, "ID_Number", 95, "all"),
       Loop(Whole(AADHAR_ALT_PATTERN), FALSE, "ID_Number", 85, "digits"),
       Loop(aadhar_label_patterns, TRUE, "ID_Number", 95, "all"),
       Loop(Whole(PAN_PATTERN), FALSE, "ID_Number", 95, "all"),
       Loop(Whole(EMAIL_PATTERN), FALSE, "Email", 90, "all"),
       Loop(Whole(PHONE_PATTERN), FALSE, "Phone", 85, "all"),
       Loop(Whole(PHONE_ALT_PATTERN), FALSE, "Phone", 80, "all"),
       Loop(phone_label_patterns, TRUE, "Phone", 90, "all"),
       Loop(Whole(DOB_PATTERN), FALSE, "DOB", 80, "all"),
       Loop(Whole(DOB_ALT_PATTERN), FALSE, "DOB", 80, "all"),
       Loop(dob_label_patterns, TRUE, "DOB", 90, "all"),
       Loop(Whole(ADDRESS_PATTERN), FALSE, "Address", 75, "long"),
       Loop(address_label_patterns, TRUE, "Address", 85, "long") >>

\* len(re.sub(r'[\s\-]', '', s))
DigitsLen(s) == Cardinality({i \in 1..Len(s) : Ch(s, i) \notin Whitespace \cup {"-"}})

\* The body of a loop for the matches of one of its patterns.
\* match.group(1) of a label loop, match.group() of another
Group(text, m) == SubSeq(text, m.g_start + 1, m.g_end)

\* The test of a loop on a match.
LoopKeeps(loop, got) ==
    /\ loop.label => str_strip(got) # ""
    /\ loop.keep = "digits" => DigitsLen(got) >= 10
    /\ loop.keep = "long" => Len(got) > 10

\* What a loop appends for a match it keeps.
LoopSpan(loop, got, m) ==
    Span(IF loop.label THEN str_strip(got) ELSE got,
         loop.category, loop.confidence, m.g_start, m.g_end)

LoopSpans(loop, text, kept) ==
    [n \in 1..Len(kept) |-> LoopSpan(loop, Group(text, kept[n]), kept[n])]

\* The body of a loop for the matches of one of its patterns.
LoopMatchesOf(loop, p, text) ==
    LoopSpans(loop, text,
              SelectSeq(re_finditer(p.prefix, p.group, text),
                        LAMBDA m : LoopKeeps(loop, Group(text, m))))

RECURSIVE Flatten(_)
Flatten(lists) == IF Len(lists) = 0 THEN << >> ELSE lists[1] \o Flatten(Tail(lists))

\* What one loop appends to sensitive_fields.
LoopMatches(loop, text) ==
    Flatten([n \in 1..Len(loop.patterns) |-> LoopMatchesOf(loop, loop.patterns[n], text)])

\* Lines 420-427: the first field of every lower-cased text.
UniqueFields(fields) ==
    LET key(n) == str_lower(FieldText(fields[n]))
        ks == SelectIdx(Len(fields), LAMBDA n : \A j \in 1..(n - 1) : key(j) # key(n))
    IN  [n \in 1..Len(ks) |-> fields[ks[n]]]

analyze_with_regex(text) ==
    LET sensitive_fields ==
            Flatten([n \in 1..Len(regex_loops) |-> LoopMatches(regex_loops[n], text)])
    IN  JList(UniqueFields(sensitive_fields))

(***************************************************************************)
(* json.loads on the classifier's candidate text.  The texts of the model  *)
(* hold objects, arrays, strings without escapes, integers, null, true and *)
(* false, with spaces as whitespace.                                       *)
(***************************************************************************)
JBool(b) == [t |-> "bool", v |-> b]

JFail == [ok |-> FALSE, v |-> JNull, pos |-> 0]

JOk(v, pos) == [ok |-> TRUE, v |-> v, pos |-> pos]

\* d[key] = v
JSet(d, key, v) ==
    IF JHas(d, key)
    THEN JDict([k \in 1..Len(d.v) |-> IF d.v[k][1] = key THEN <<key, v>> ELSE d.v[k]])
    ELSE JDict(Append(d.v, <<key, v>>))

\* The character after offset pos, "" at the end of s.
CharAt(s, pos) == IF pos < Len(s) THEN Ch(s, pos + 1) ELSE ""

RECURSIVE SkipWs(_, _)
SkipWs(s, pos) == IF CharAt(s, pos) \in Whitespace THEN SkipWs(s, pos + 1) ELSE pos

RECURSIVE DigitsValue(_)
DigitsValue(s) ==
    IF s = "" THEN 0
    ELSE 10 * DigitsValue(SubSeq(s, 1, Len(s) - 1))
         + (CHOOSE d \in 0..9 : Ch(DIGITS, d + 1) = Ch(s, Len(s)))

\* An integer at offset pos: 0, or a run of digits that does not start with 0.
ParseInt(s, pos) ==
    LET run == IF CharAt(s, pos) = "0" THEN 1 ELSE RunLen(DigitChars, s, pos, Len(s))
    IN  IF run = 0 THEN JFail
        ELSE JOk(JNum(DigitsValue(SubSeq(s, pos + 1, pos + run))), pos + run)

\* A string whose opening quote is the character after offset pos.
ParseString(s, pos) ==
    LET closing == {q \in (pos + 2)..Len(s) : Ch(s, q) = "\""}
    IN  IF closing = {} THEN JFail
        ELSE JOk(JStr(SubSeq(s, pos + 2, Min(closing) - 1)), Min(closing))

RECURSIVE ParseValue(_, _)
RECURSIVE ParseElements(_, _, _)
RECURSIVE ParseMembers(_, _, _)
ParseValue(s, pos0) ==
    LET pos == SkipWs(s, pos0)
        c == CharAt(s, pos)
    IN  CASE c = "[" ->
                IF CharAt(s, SkipWs(s, pos + 1)) = "]"
                THEN JOk(JList(<< >>), SkipWs(s, pos + 1) + 1)
                ELSE ParseElements(s, pos + 1, << >>)
          [] c = "{" ->
                IF CharAt(s, SkipWs(s, pos + 1)) = "}"
                THEN JOk(JDict(<< >>), SkipWs(s, pos + 1) + 1)
                ELSE ParseMembers(s, pos + 1, JDict(<< >>))
          [] c = "\"" -> ParseString(s, pos)
          [] c = "-" ->
                LET r == ParseInt(s, pos + 1)
                IN  IF r.ok THEN JOk(JNum(0 - r.v.v), r.pos) ELSE JFail
          [] c \in DigitChars -> ParseInt(s, pos)
          [] LitAt("null", FALSE, s, pos) -> JOk(JNull, pos + 4)
          [] LitAt("true", FALSE, s, pos) -> JOk(JBool(TRUE), pos + 4)
          [] LitAt("false", FALSE, s, pos) -> JOk(JBool(FALSE), pos + 5)
          [] OTHER -> JFail

ParseElements(s, pos, acc) ==
    LET r == ParseValue(s, pos)
        p == SkipWs(s, r.pos)
    IN  IF ~r.ok THEN JFail
        ELSE IF CharAt(s, p) = "," THEN ParseElements(s, p + 1, Append(acc, r.v))
        ELSE IF CharAt(s, p) = "]" THEN JOk(JList(Append(acc, r.v)), p + 1)
        ELSE JFail

ParseMembers(s, pos0, acc) ==
    LET pos == SkipWs(s, pos0)
        key == IF CharAt(s, pos) = "\"" THEN ParseString(s, pos) ELSE JFail
        colon == SkipWs(s, key.pos)
        r == ParseValue(s, colon + 1)
        p == SkipWs(s, r.pos)
    IN  IF ~key.ok \/ CharAt(s, colon) # ":" THEN JFail
        ELSE IF ~r.ok THEN JFail
        ELSE IF CharAt(s, p) = "," THEN ParseMembers(s, p + 1, JSet(acc, key.v.v, r.v))
        ELSE IF CharAt(s, p) = "}" THEN JOk(JSet(acc, key.v.v, r.v), p + 1)
        ELSE JFail

\* json.loads(s): ok is FALSE where it raises JSONDecodeError.
json_loads(s) ==
    LET r == ParseValue(s, 0)
    IN  IF r.ok /\ SkipWs(s, r.pos) = Len(s) THEN JOk(r.v, Len(s)) ELSE JFail

\* re.search(r'\[.*?\]', response_text, re.DOTALL) and the else branch of
\* line 181: the text from the first "[" up to the first "]" after it, the
\* whole text when there is none; then .strip().
json_content(response_text) ==
    LET opens == {p \in 1..Len(response_text) :
                    /\ Ch(response_text, p) = "["
                    /\ \E q \in (p + 1)..Len(response_text) : Ch(response_text, q) = "]"}
        p0 == Min(opens)
        q0 == Min({q \in (p0 + 1)..Len(response_text) : Ch(response_text, q) = "]"})
    IN  str_strip(IF opens = {} THEN response_text ELSE SubSeq(response_text, p0, q0))

(***************************************************************************)
(* analyze_document_text (lines 29-208): what it returns for a process     *)
(* environment, a curl exit status and a curl output.  stdout is either    *)
(* not JSON or the JSON document given by its value.                       *)
(***************************************************************************)
NotJson == [json |-> FALSE, value |-> JNull]

Json(value) == [json |-> TRUE, value |-> value]

\* Lines 170-173: response_json["candidates"][0]["content"]["parts"][0]["text"].
\* ok is FALSE where a test of lines 170-172 fails or an access raises
\* (KeyError, IndexError, TypeError); both ways lead to analyze_with_regex.
CandidateText(response_json) ==
    LET none == [ok |-> FALSE, text |-> ""]
        candidates == JGet(response_json, "candidates", JNull)
        candidate == candidates.v[1]
        content == JGet(candidate, "content", JNull)
        parts == JGet(content, "parts", JNull)
        part == parts.v[1]
        response_text == JGet(part, "text", JNull)
    IN  IF response_json.t # "dict" THEN none
        ELSE IF candidates.t # "list" THEN none
        ELSE IF Len(candidates.v) = 0 THEN none
        ELSE IF candidate.t # "dict" THEN none
        ELSE IF content.t # "dict" THEN none
        ELSE IF parts.t # "list" THEN none
        ELSE IF Len(parts.v) = 0 THEN none
        ELSE IF part.t # "dict" THEN none
        ELSE IF response_text.t # "str" THEN none
        ELSE [ok |-> TRUE, text |-> response_text.v]

(***************************************************************************)
(* enhance_document_fields (lines 433-488).                                *)
(***************************************************************************)
\* " ".join([field.get("text", "") for field in extracted_fields])
AllText(extracted_fields) ==
    str_join([k \in 1..Len(extracted_fields) |-> extracted_fields[k].text])

FieldMatches_ShorterSet(field_text, info_text) ==
    LET f == str_lower(field_text)
        i == str_lower(info_text)
        shorter == IF Len(i) < Len(f) THEN i ELSE f
    IN  \/ f = i
        \/ str_in(f, i)
        \/ str_in(i, f)
        \/ 10 * Cardinality(CharSet(f) \cap CharSet(i)) > 7 * Cardinality(CharSet(shorter))

\* Lines 468-472; n > 0.7 * m on integers is 10 * n > 7 * m.
FieldMatches(field_text, info_text) ==
    LET f == str_lower(field_text)
        i == str_lower(info_text)
    IN  \/ f = i
        \/ str_in(f, i)
        \/ str_in(i, f)
        \/ 10 * Cardinality(CharSet(f) \cap CharSet(i)) > 7 * Cardinality(CharSet(f))

\* What  for info in sensitive_info  iterates over: the elements of a list,
\* the keys of a dict, the characters of a str; iterable is FALSE where the
\* for statement raises TypeError.
Iterate(sensitive_info) ==
    CASE sensitive_info.t = "list" -> [iterable |-> TRUE, items |-> sensitive_info.v]
      [] sensitive_info.t = "dict" ->
            [iterable |-> TRUE,
             items |-> [k \in 1..Len(sensitive_info.v) |-> JStr(sensitive_info.v[k][1])]]
      [] sensitive_info.t = "str" ->
            [iterable |-> TRUE,
             items |-> [k \in 1..Len(sensitive_info.v) |-> JStr(Ch(sensitive_info.v, k))]]
      [] OTHER -> [iterable |-> FALSE, items |-> << >>]

\* Lines 475-480: the copy of the field with the span's annotations.
EnhancedField(field, info) ==
    [id |-> field.id, text |-> field.text,
     category |-> JGet(info, "category", JStr("Unknown")),
     ai_confidence |-> JGet(info, "confidence", JNum(70)),
     reason |-> JGet(info, "reason", JStr("Identified as sensitive information")),
     sensitive |-> TRUE]

\* Lines 464-482, the inner loop from span j on: what it appends to
\* enhanced_fields, or the error it raises (info.get on a value that is not
\* a dict, info_text.lower() on a value that is not a str).
RECURSIVE ScanSpans_NoBreak(_, _, _)
ScanSpans_NoBreak(field, items, j) ==
    IF j > Len(items) THEN [error |-> "", appended |-> << >>]
    ELSE IF items[j].t # "dict" \/ JGet(items[j], "text", JStr("")).t # "str"
    THEN [error |-> "AttributeError", appended |-> << >>]
    ELSE LET rest == ScanSpans_NoBreak(field, items, j + 1)
         IN  IF FieldMatches(field.text, JGet(items[j], "text", JStr("")).v)
             THEN [error |-> rest.error,
                   appended |-> <<EnhancedField(field, items[j])>> \o rest.appended]
             ELSE rest

RECURSIVE ScanSpans(_, _, _)
ScanSpans(field, items, j) ==
    IF j > Len(items) THEN [error |-> "", appended |-> << >>]
    ELSE IF items[j].t # "dict" \/ JGet(items[j], "text", JStr("")).t # "str"
    THEN [error |-> "AttributeError", appended |-> << >>]
    ELSE IF FieldMatches(field.text, JGet(items[j], "text", JStr("")).v)
    THEN [error |-> "", appended |-> <<EnhancedField(field, items[j])>>]
    ELSE ScanSpans(field, items, j + 1)

\* Lines 459-486, one iteration of the outer loop.
MapField(field, sensitive_info) ==
    LET it == Iterate(sensitive_info)
        scan == ScanSpans(field, it.items, 1)
    IN  IF ~it.iterable THEN [error |-> "TypeError", appended |-> << >>]
        ELSE IF scan.error # "" THEN scan
        ELSE IF Len(scan.appended) = 0 THEN [error |-> "", appended |-> <<field>>]
        ELSE scan

(***************************************************************************)
(* A call of enhance_document_fields, with the call of                     *)
(* analyze_document_text inside it.                                        *)
(***************************************************************************)
FieldTexts == {"", "John Smith", "JohnSmith", "Smithson", "Name: John", "1234 5678 9012"}

\* The OCR fields of a request: field k of the list has id k.
ExtractedFields ==
    {[k \in 1..Len(texts) |-> [id |-> k, text |-> texts[k]]] :
        texts \in SeqsUpTo(FieldTexts, MaxExtracted)}

DocumentTypes == {"unknown", "aadhaar"}

\* The candidate texts the classifier answers with.
CandidateTexts ==
    {"[{\"text\": \"John Smith\", \"category\": \"Name\", \"confidence\": 90}]",
     "Here is the list: [{\"text\": \"Smyth\", \"category\": \"Name\", \"confidence\": 80}] Done.",
     "[{\"text\": \"John\", \"category\": \"First\", \"confidence\": 60}, {\"text\": \"John Smith\", \"category\": \"Name\", \"confidence\": 90}]",
     "[{\"text\": \"\", \"category\": \"Name\", \"confidence\": 50}]",
     "[{\"category\": \"Name\"}]",
     "[{\"text\": null, \"category\": \"Name\", \"confidence\": 90}]",
     "[{\"text\": \"a]b\", \"category\": \"Name\"}]",
     "[1]",
     "[]",
     "{\"text\": \"John\"}",
     "\"John\"",
     "7",
     "null",
     "I cannot help with that."}

Part(text) == JDict(<< <<"text", text>> >>)

Content(parts) == JDict(<< <<"parts", JList(parts)>> >>)

Candidate(content) == JDict(<< <<"content", content>> >>)

Response(candidates) == JDict(<< <<"candidates", JList(candidates)>> >>)

\* What curl can print when it exits with status 0.
Stdouts ==
    {NotJson, Json(JList(<< >>)), Json(JDict(<< <<"error", JStr("quota")>> >>)),
     Json(Response(<< >>)),
     Json(Response(<<JDict(<< <<"finishReason", JStr("SAFETY")>> >>)>>)),
     Json(Response(<<Candidate(JDict(<< <<"role", JStr("model")>> >>))>>)),
     Json(Response(<<Candidate(Content(<< >>))>>)),
     Json(Response(<<Candidate(Content(<<JDict(<< >>)>>))>>)),
     Json(Response(<<Candidate(Content(<<Part(JNum(7))>>))>>))}
    \cup {Json(Response(<<Candidate(Content(<<Part(JStr(t))>>))>>)) : t \in CandidateTexts}

\* analyze_with_regex on the joined texts of the requests, and the parse of
\* lines 176-194 on the candidate texts, each computed once.
RegexAnalysis == [text \in {AllText(f) : f \in ExtractedFields} |-> analyze_with_regex(text)]

CandidateJson == [text \in CandidateTexts |-> json_loads(json_content(text))]

\* Lines 165-208: the return value for a curl output, with the branch taken.
ParseResponse(text, stdout) ==
    LET ct == CandidateText(stdout.value)
        sensitive_fields == CandidateJson[ct.text]
    IN  IF stdout.json /\ ct.ok /\ sensitive_fields.ok
        THEN [fallback |-> FALSE, value |-> sensitive_fields.v]
        ELSE [fallback |-> TRUE, value |-> RegexAnalysis[text]]

EnhIdle ==
    [pc |-> "idle", extracted_fields |-> << >>, document_type |-> "",
     GEMINI_API_KEY |-> FALSE, returncode |-> 0, stdout |-> NotJson,
     all_text |-> "", sensitive_info |-> JNull, fallback |-> FALSE,
     enhanced_fields |-> << >>, error |-> "", result |-> << >>]

\* A caller invokes enhance_document_fields(extracted_fields, document_type)
\* in a process whose environment has GEMINI_API_KEY set or not.
EnhCall ==
    /\ enh_frame.pc = "idle"
    /\ \E extracted_fields \in ExtractedFields, document_type \in DocumentTypes,
          key \in BOOLEAN :
            enh_frame' = [EnhIdle EXCEPT
                !.pc = "called", !.extracted_fields = extracted_fields,
                !.document_type = document_type, !.GEMINI_API_KEY = key]
    /\ UNCHANGED enh_others

\* Lines 447-448: no fields, return [].
EnhSkip ==
    /\ enh_frame.pc = "called"
    /\ Len(enh_frame.extracted_fields) = 0
    /\ enh_frame' = [enh_frame EXCEPT !.pc = "returned", !.result = << >>]
    /\ UNCHANGED enh_others

\* Lines 451-454: join the texts and call analyze_document_text.
EnhJoin ==
    /\ enh_frame.pc = "called"
    /\ Len(enh_frame.extracted_fields) > 0
    /\ enh_frame' = [enh_frame EXCEPT
            !.pc = "analyze", !.all_text = AllText(enh_frame.extracted_fields)]
    /\ UNCHANGED enh_others

\* Lines 46-48: no API key.
AdtNoKey ==
    /\ enh_frame.pc = "analyze"
    /\ ~enh_frame.GEMINI_API_KEY
    /\ enh_frame' = [enh_frame EXCEPT
            !.pc = "map", !.fallback = TRUE,
            !.sensitive_info = RegexAnalysis[enh_frame.all_text]]
    /\ UNCHANGED enh_others

\* Lines 148-159: curl exits with a non-zero status.
AdtCurlFails ==
    /\ enh_frame.pc = "analyze"
    /\ enh_frame.GEMINI_API_KEY
    /\ enh_frame' = [enh_frame EXCEPT
            !.pc = "map", !.returncode = 1, !.fallback = TRUE,
            !.sensitive_info = RegexAnalysis[enh_frame.all_text]]
    /\ UNCHANGED enh_others

\* Lines 148-163: curl exits with status 0 and has printed stdout.
AdtCurlReturns ==
    /\ enh_frame.pc = "analyze"
    /\ enh_frame.GEMINI_API_KEY
    /\ \E stdout \in Stdouts :
            enh_frame' = [enh_frame EXCEPT
                !.pc = "parse", !.returncode = 0, !.stdout = stdout]
    /\ UNCHANGED enh_others

\* Lines 165-208: parse the response and return.
AdtParse ==
    /\ enh_frame.pc = "parse"
    /\ LET r == ParseResponse(enh_frame.all_text, enh_frame.stdout)
       IN  enh_frame' = [enh_frame EXCEPT
                !.pc = "map", !.fallback = r.fallback, !.sensitive_info = r.value]
    /\ UNCHANGED enh_others

\* Lines 459-486: one iteration of the loop over extracted_fields.
EnhMapField ==
    /\ enh_frame.pc = "map"
    /\ Len(enh_frame.enhanced_fields) < Len(enh_frame.extracted_fields)
    /\ LET field == enh_frame.extracted_fields[Len(enh_frame.enhanced_fields) + 1]
           r == MapField(field, enh_frame.sensitive_info)
       IN  IF r.error # ""
           THEN enh_frame' = [enh_frame EXCEPT !.pc = "raised", !.error = r.error]
           ELSE enh_frame' = [enh_frame EXCEPT
                    !.enhanced_fields = enh_frame.enhanced_fields \o r.appended]
    /\ UNCHANGED enh_others

\* Line 488: return enhanced_fields.
EnhReturn ==
    /\ enh_frame.pc = "map"
    /\ Len(enh_frame.enhanced_fields) >= Len(enh_frame.extracted_fields)
    /\ enh_frame' = [enh_frame EXCEPT !.pc = "returned", !.result = enh_frame.enhanced_fields]
    /\ UNCHANGED enh_others

(***************************************************************************)
(* The deduplication loop of detect_entities_from_ocr (lines 327-336), run *)
(* on a raw hit list of boxes with small coordinates.                      *)
(***************************************************************************)
DdBoxes ==
    {<<x, y, w, h>> : x \in 0..MaxCoord, y \in 0..MaxCoord, w \in 1..2, h \in 1..2}

DdIdle == [pc |-> "idle", hits |-> << >>, uniq |-> << >>]

\* hits[k] holds a raw list of boxes.
DdCall ==
    /\ dd_frame.pc = "idle"
    /\ \E hits \in SeqsUpTo(DdBoxes, MaxBoxes) :
            dd_frame' = [DdIdle EXCEPT !.pc = "dedup", !.hits = hits]
    /\ UNCHANGED dd_others

\* Lines 329-336: hits[k] = uniq.
DdDedup ==
    /\ dd_frame.pc = "dedup"
    /\ dd_frame' = [dd_frame EXCEPT !.pc = "done", !.uniq = Deduplicate(dd_frame.hits)]
    /\ UNCHANGED dd_others

(***************************************************************************)
(* _merge_boxes (lines 174-181), called on a list of boxes with small      *)
(* coordinates.                                                            *)
(***************************************************************************)
MbIdle == [pc |-> "idle", boxes |-> << >>, result |-> <<0, 0, 0, 0>>]

MbCall ==
    /\ mb_frame.pc = "idle"
    /\ \E boxes \in SeqsUpTo(DdBoxes, MaxBoxes) :
            mb_frame' = [MbIdle EXCEPT !.pc = "called", !.boxes = boxes]
    /\ UNCHANGED mb_others

MbReturn ==
    /\ mb_frame.pc = "called"
    /\ mb_frame' = [mb_frame EXCEPT !.pc = "returned", !.result = _merge_boxes(mb_frame.boxes)]
    /\ UNCHANGED mb_others

(***************************************************************************)
(* redact_image run a second time on the same request: the same image,    *)
(* document type, field lists and language, and the same token stream from *)
(* the OCR engine.  The sets of the second run may iterate in another      *)
(* order.                                                                  *)
(***************************************************************************)
\* The OCR step of a first run.
\* The call of a request that will be run twice: on the unreadable image or
\* the 200x100 one.
RiCallTwice ==
    /\ RiCall
    /\ ri_frame'.image.cols <= 200

RiOcrFirst ==
    /\ ri_first.pc = "idle"
    /\ RiOcr

\* The first run has ended; the caller repeats the call.
RiAgain ==
    /\ ri_first.pc = "idle"
    /\ ri_frame.pc \in {"returned", "raised"}
    /\ ri_first' = ri_frame
    /\ ri_frame' = [RiIdle EXCEPT
            !.pc = "preprocess", !.doc_type = ri_frame.doc_type, !.lang = ri_frame.lang,
            !.image = ri_frame.image, !.permanent_fields = ri_frame.permanent_fields,
            !.temporary_fields = ri_frame.temporary_fields]
    /\ UNCHANGED twice_others

\* Line 389 in the second run: the OCR engine returns the stream it
\* returned in the first.
RiOcrAgain ==
    /\ ri_first.pc # "idle"
    /\ ri_frame.pc = "ocr"
    /\ ri_frame' = [ri_frame EXCEPT !.pc = "detect", !.data = ri_first.data]
    /\ UNCHANGED ri_others

(***************************************************************************)
(* draw_redactions (lines 345-367) on an image of 2 x 2 pixels.  A pixel   *)
(* holds "orig" until a style is drawn over it.  numpy slices and          *)
(* cv2.rectangle are computed as the libraries do: a slice clamps its ends *)
(* to the axis and counts a negative end from the far side; a filled       *)
(* rectangle covers both of its corners, in whichever order they come.     *)
(***************************************************************************)
BlankImage == [p \in (0..1) \X (0..1) |-> "orig"]

\* color_bgr.shape[0] and color_bgr.shape[1]
Rows(img) == 1 + Max({p[1] : p \in DOMAIN img})

Cols(img) == 1 + Max({p[2] : p \in DOMAIN img})

\* The indices of a[start:stop] on an axis of n entries.
SliceEnd(i, n) == IF i < 0 THEN (IF i + n < 0 THEN 0 ELSE i + n) ELSE (IF i > n THEN n ELSE i)

Slice(start, stop, n) == SliceEnd(start, n)..(SliceEnd(stop, n) - 1)

\* The pixels <<row, column>> of color_bgr[y:y + h, x:x + w]
Roi(img, x, y, w, h) == Slice(y, y + h, Rows(img)) \X Slice(x, x + w, Cols(img))

\* The pixels cv2.rectangle(img, (x, y), (x + w, y + h), color, thickness=-1) fills.
Filled(img, x, y, w, h) ==
    {p \in DOMAIN img :
        /\ (IF h < 0 THEN y + h ELSE y) <= p[1] /\ p[1] <= (IF h < 0 THEN y ELSE y + h)
        /\ (IF w < 0 THEN x + w ELSE x) <= p[2] /\ p[2] <= (IF w < 0 THEN x ELSE x + w)}

\* img with the pixels of region set to colour
PaintOver(img, region, colour) ==
    [p \in DOMAIN img |-> IF p \in region THEN colour ELSE img[p]]

\* One iteration of the loop of draw_redactions: the image after it, and
\* the error it raises ("" for none).  cv2.resize to a size that is not
\* positive raises cv2.error; an assignment of h x w pixels to a slice that
\* the image's edge has cut short raises ValueError.
DrawBox(img, box, style) ==
    LET x == box[1]
        y == box[2]
        w == box[3]
        h == box[4]
    IN  CASE style = "blur" ->
                IF Roi(img, x, y, w, h) = {} THEN [img |-> img, error |-> ""]
                ELSE [img |-> PaintOver(img, Roi(img, x, y, w, h), "blur"), error |-> ""]
          [] style = "pixel" ->
                IF Roi(img, x, y, w, h) = {} THEN [img |-> img, error |-> ""]
                ELSE IF w <= 0 \/ h <= 0 THEN [img |-> img, error |-> "cv2.error"]
                ELSE IF Cardinality(Roi(img, x, y, w, h)) # w * h
                THEN [img |-> img, error |-> "ValueError"]
                ELSE [img |-> PaintOver(img, Roi(img, x, y, w, h), "pixel"), error |-> ""]
          [] style = "yellow" ->
                [img |-> PaintOver(img, Filled(img, x, y, w, h), "yellow"), error |-> ""]
          [] style = "red" ->
                [img |-> PaintOver(img, Filled(img, x, y, w, h), "red"), error |-> ""]
          [] OTHER ->
                [img |-> PaintOver(img, Filled(img, x, y, w, h), "black"), error |-> ""]

Styles == {"black", "blur", "pixel", "yellow", "red"}

\* Rectangles at and around the image's pixels, of width and height -1, 0
\* and 1.
DrBoxes == {<<x, y, w, h>> : x \in 0..1, y \in 0..1, w \in -1..1, h \in -1..1}

DrIdle == [pc |-> "idle", color_bgr |-> BlankImage, boxes |-> << >>, style |-> "",
           k |-> 0, error |-> ""]

\* A caller invokes draw_redactions(color_bgr, boxes, style); k counts the
\* boxes the loop has gone through.
DrCall ==
    /\ dr_frame.pc = "idle"
    /\ \E boxes \in SeqsUpTo(DrBoxes, MaxBoxes), style \in Styles :
            dr_frame' = [DrIdle EXCEPT !.pc = "loop", !.boxes = boxes, !.style = style]
    /\ UNCHANGED dr_others

\* Lines 346-367: one iteration.
DrIterate ==
    /\ dr_frame.pc = "loop"
    /\ dr_frame.k < Len(dr_frame.boxes)
    /\ LET r == DrawBox(dr_frame.color_bgr, dr_frame.boxes[dr_frame.k + 1], dr_frame.style)
       IN  IF r.error # ""
           THEN dr_frame' = [dr_frame EXCEPT !.pc = "raised", !.error = r.error]
           ELSE dr_frame' = [dr_frame EXCEPT !.k = @ + 1, !.color_bgr = r.img]
    /\ UNCHANGED dr_others

\* The loop has gone through every box.
DrReturn ==
    /\ dr_frame.pc = "loop"
    /\ dr_frame.k >= Len(dr_frame.boxes)
    /\ dr_frame' = [dr_frame EXCEPT !.pc = "returned"]
    /\ UNCHANGED dr_others

(***************************************************************************)
(* Redaction directives drawn from coordinates: apply_custom_redactions    *)
(* (redact_ai.py 436-462) and apply_image_redactions (app.py 646-754).     *)
(* A directive is the dictionary the client sends: position, method and,   *)
(* when present, its own redaction_type ("" when the key is absent).       *)
(* NullPosition is a position that is not a dictionary ("position": null): *)
(* pos.get raises AttributeError on it.  A paint records the directive it  *)
(* was drawn for, the rectangle, the fill and the one-pixel border.        *)
(***************************************************************************)
NullPosition == << >>

Positions == {<<1, 1, 1, 1>>, <<0, 1, 1, 1>>, <<1, 1, 0, 1>>, NullPosition}

Methods == {"select", "brush"}

Directives ==
    [position : Positions, method : Methods, redaction_type : {"", "permanent", "temporary"}]

RedactionTypes == {"permanent", "temporary"}

\* x > 0 and y > 0 and w > 0 and h > 0
PositiveBox(pos) == pos[1] > 0 /\ pos[2] > 0 /\ pos[3] > 0 /\ pos[4] > 0

\* redaction.get('redaction_type', redaction_type)
redaction_type_specific(redaction, redaction_type) ==
    IF redaction.redaction_type = "" THEN redaction_type ELSE redaction.redaction_type

\* The fill apply_custom_redactions chooses, lines 450-459.
CustomFill_BrushFirst(redaction_type, method) ==
    IF method = "brush" THEN "yellow"
    ELSE IF redaction_type = "permanent" THEN "black" ELSE "gray"

CustomFill(redaction_type, method) ==
    IF redaction_type = "permanent" THEN "black"
    ELSE IF method = "brush" THEN "yellow" ELSE "gray"

\* Fill and border of the try branch of apply_image_redactions, lines 669-678.
ManualColors(specific) ==
    IF specific = "permanent" THEN [fill |-> "black", border |-> "white"]
    ELSE [fill |-> "yellow", border |-> "black"]

\* Fill and border of its except branch, lines 735-746.
FallbackColors(specific, redact_method) ==
    IF specific = "permanent" THEN [fill |-> "black", border |-> "white"]
    ELSE IF redact_method = "brush" THEN [fill |-> "red", border |-> "white"]
    ELSE [fill |-> "yellow", border |-> "black"]

Paint(k, pos, fill, border) == [of |-> k, box |-> pos, fill |-> fill, border |-> border]

CuIdle == [pc |-> "idle", readable |-> FALSE, redactions |-> << >>, redaction_type |-> "",
           k |-> 0, img |-> << >>, error |-> ""]

\* No other operation of the behaviour has been called.
OnlyCall == cu_frame.pc = "idle" /\ ai_frame.pc = "idle"

\* A caller invokes apply_custom_redactions(image_path, redactions, redaction_type).
CuCall ==
    /\ OnlyCall
    /\ \E readable \in BOOLEAN, redactions \in SeqsUpTo(Directives, MaxBoxes),
          redaction_type \in RedactionTypes :
            cu_frame' = [CuIdle EXCEPT !.pc = "read", !.readable = readable,
                            !.redactions = redactions, !.redaction_type = redaction_type]
    /\ UNCHANGED cu_others

\* Lines 438-440.
CuRead ==
    /\ cu_frame.pc = "read"
    /\ IF cu_frame.readable
       THEN cu_frame' = [cu_frame EXCEPT !.pc = "loop"]
       ELSE cu_frame' = [cu_frame EXCEPT !.pc = "raised", !.error = "FileNotFoundError"]
    /\ UNCHANGED cu_others

\* Lines 442-459: one directive.
CuIterate ==
    /\ cu_frame.pc = "loop"
    /\ cu_frame.k < Len(cu_frame.redactions)
    /\ LET redaction == cu_frame.redactions[cu_frame.k + 1]
           pos == redaction.position
       IN  IF pos = NullPosition
           THEN cu_frame' = [cu_frame EXCEPT !.pc = "raised", !.error = "AttributeError"]
           ELSE cu_frame' = [cu_frame EXCEPT
                    !.k = @ + 1,
                    !.img = IF PositiveBox(pos)
                            THEN Append(@, Paint(cu_frame.k + 1, pos,
                                    CustomFill(cu_frame.redaction_type, redaction.method), ""))
                            ELSE @]
    /\ UNCHANGED cu_others

\* Line 461: return img.
CuReturn ==
    /\ cu_frame.pc = "loop"
    /\ cu_frame.k >= Len(cu_frame.redactions)
    /\ cu_frame' = [cu_frame EXCEPT !.pc = "returned"]
    /\ UNCHANGED cu_others

\* The file at output_path: none, or an image holding paints.  content
\* tells whose pixels are under them: the input image's or redact_image's
\* result.
NoFile == [exists |-> FALSE, content |-> "", paints |-> << >>]

File(content, paints) == [exists |-> TRUE, content |-> content, paints |-> paints]

ImageDocTypes == {"unknown", "aadhaar", "pan"}

\* How the call of redact_image at lines 700-708 ends: FileNotFoundError
\* for an unreadable image, UnboundLocalError when aadhaar_number is among
\* the fields of the type (detect_entities_from_ocr, line 249), else the
\* redacted image.
RedactImageRaises(readable, document_type) ==
    IF ~readable THEN "FileNotFoundError"
    ELSE IF AadhaarBranchRaises(ReqFields(document_type, << >>, << >>)) THEN "UnboundLocalError"
    ELSE ""

AiIdle == [pc |-> "idle", readable |-> FALSE, redactions |-> << >>, redaction_type |-> "",
           document_type |-> "", k |-> 0, img |-> << >>, error |-> "", e |-> "",
           output |-> NoFile]

\* A caller invokes apply_image_redactions(file_path, output_path,
\* redactions, redaction_type, document_type).
AiCall ==
    /\ OnlyCall
    /\ \E readable \in BOOLEAN, redactions \in SeqsUpTo(Directives, MaxBoxes),
          redaction_type \in RedactionTypes, document_type \in ImageDocTypes :
            ai_frame' = [AiIdle EXCEPT !.pc = "try", !.readable = readable,
                            !.redactions = redactions, !.redaction_type = redaction_type,
                            !.document_type = document_type]
    /\ UNCHANGED ai_others

\* Lines 650-654: manual redactions; read the image.
AiTryRead ==
    /\ ai_frame.pc = "try"
    /\ Len(ai_frame.redactions) > 0
    /\ IF ai_frame.readable
       THEN ai_frame' = [ai_frame EXCEPT !.pc = "try_loop"]
       ELSE ai_frame' = [ai_frame EXCEPT !.pc = "except", !.e = "FileNotFoundError"]
    /\ UNCHANGED ai_others

\* Lines 657-678: one directive of the try branch.
AiTryIterate ==
    /\ ai_frame.pc = "try_loop"
    /\ ai_frame.k < Len(ai_frame.redactions)
    /\ LET redaction == ai_frame.redactions[ai_frame.k + 1]
           pos == redaction.position
           colors == ManualColors(redaction_type_specific(redaction, ai_frame.redaction_type))
       IN  IF pos = NullPosition
           THEN ai_frame' = [ai_frame EXCEPT !.pc = "except", !.e = "AttributeError"]
           ELSE ai_frame' = [ai_frame EXCEPT
                    !.k = @ + 1,
                    !.img = IF PositiveBox(pos)
                            THEN Append(@, Paint(ai_frame.k + 1, pos, colors.fill, colors.border))
                            ELSE @]
    /\ UNCHANGED ai_others

\* Line 680: cv2.imwrite(output_path, img_cv).
AiTryWrite ==
    /\ ai_frame.pc = "try_loop"
    /\ ai_frame.k >= Len(ai_frame.redactions)
    /\ ai_frame' = [ai_frame EXCEPT !.pc = "returned", !.output = File("input", ai_frame.img)]
    /\ UNCHANGED ai_others

\* Lines 683-709: no manual redaction and a known document type.
AiTemplate ==
    /\ ai_frame.pc = "try"
    /\ Len(ai_frame.redactions) = 0
    /\ ai_frame.document_type \in {"aadhar", "aadhaar", "pan", "passport"}
    /\ LET raised == RedactImageRaises(ai_frame.readable, ai_frame.document_type)
       IN  IF raised # ""
           THEN ai_frame' = [ai_frame EXCEPT !.pc = "except", !.e = raised]
           ELSE ai_frame' = [ai_frame EXCEPT !.pc = "returned",
                                !.output = File("redact_image", << >>)]
    /\ UNCHANGED ai_others

\* Lines 710-713: no manual redaction, unknown type: copy the image.
\* cv2.imwrite raises cv2.error for the None an unreadable image gives.
AiCopy ==
    /\ ai_frame.pc = "try"
    /\ Len(ai_frame.redactions) = 0
    /\ ai_frame.document_type \notin {"aadhar", "aadhaar", "pan", "passport"}
    /\ IF ai_frame.readable
       THEN ai_frame' = [ai_frame EXCEPT !.pc = "returned", !.output = File("input", << >>)]
       ELSE ai_frame' = [ai_frame EXCEPT !.pc = "except", !.e = "cv2.error"]
    /\ UNCHANGED ai_others

\* Lines 715-718: the handler reads the image again.
AiExcept ==
    /\ ai_frame.pc = "except"
    /\ ai_frame' = [ai_frame EXCEPT !.pc = "fallback_loop", !.k = 0, !.img = << >>]
    /\ UNCHANGED ai_others

\* Lines 720-749: one directive of the handler; no test of the rectangle.
\* cv2.rectangle raises cv2.error for an img of None.
AiFallbackIterate ==
    /\ ai_frame.pc = "fallback_loop"
    /\ ai_frame.k < Len(ai_frame.redactions)
    /\ LET redaction == ai_frame.redactions[ai_frame.k + 1]
           pos == redaction.position
           colors == FallbackColors(redaction_type_specific(redaction, ai_frame.redaction_type),
                                    redaction.method)
       IN  IF pos = NullPosition
           THEN ai_frame' = [ai_frame EXCEPT !.pc = "raised", !.error = "AttributeError"]
           ELSE IF ~ai_frame.readable
           THEN ai_frame' = [ai_frame EXCEPT !.pc = "raised", !.error = "cv2.error"]
           ELSE ai_frame' = [ai_frame EXCEPT
                    !.k = @ + 1,
                    !.img = Append(@, Paint(ai_frame.k + 1, pos, colors.fill, colors.border))]
    /\ UNCHANGED ai_others

\* Line 751: cv2.imwrite(output_path, img).
AiFallbackWrite ==
    /\ ai_frame.pc = "fallback_loop"
    /\ ai_frame.k >= Len(ai_frame.redactions)
    /\ IF ai_frame.readable
       THEN ai_frame' = [ai_frame EXCEPT !.pc = "returned", !.output = File("input", ai_frame.img)]
       ELSE ai_frame' = [ai_frame EXCEPT !.pc = "raised", !.error = "cv2.error"]
    /\ UNCHANGED ai_others

(***************************************************************************)
(* apply_image_text_redactions (app.py 316-430): the typed texts are       *)
(* searched in the OCR tokens and the matching tokens are boxed.  The file *)
(* at file_path is "readable", "unreadable" (it exists and cv2.imread      *)
(* returns None for it) or "missing".                                      *)
(***************************************************************************)
\* Python's  s.split()
RECURSIVE SplitFrom(_, _, _)
SplitFrom(s, cur, acc) ==
    IF s = "" THEN (IF cur = "" THEN acc ELSE Append(acc, cur))
    ELSE IF IsSpace(Ch(s, 1))
    THEN SplitFrom(SubSeq(s, 2, Len(s)), "", IF cur = "" THEN acc ELSE Append(acc, cur))
    ELSE SplitFrom(SubSeq(s, 2, Len(s)), cur \o Ch(s, 1), acc)

str_split(s) == SplitFrom(s, "", << >>)

\* Lines 346-349 and 387-390.
TextMatch(search, ocr_text, case_sensitive) ==
    IF case_sensitive THEN str_in(search, ocr_text)
    ELSE str_in(str_lower(search), str_lower(ocr_text))

\* The tokens a search text is found in with confidence above 30.
MatchIdxs(data, search, case_sensitive) ==
    SelectIdx(NTokens(data),
              LAMBDA i : TextMatch(search, str_strip(data.text[i]), case_sensitive)
                            /\ data.conf[i] > 30)

\* Lines 353-362: the token's box, expanded.
ExpandedBox(data, i) ==
    <<IF data.left[i] - 5 > 0 THEN data.left[i] - 5 ELSE 0,
      IF data.top[i] - 5 > 0 THEN data.top[i] - 5 ELSE 0,
      data.width[i] + 10, data.height[i] + 10>>

\* One paint per matching token, lines 364-371.
MatchPaints(data, idxs, k, redaction_type) ==
    [n \in 1..Len(idxs) |->
        Paint(k, ExpandedBox(data, idxs[n]),
              IF redaction_type = "permanent" THEN "black" ELSE "yellow",
              IF redaction_type = "permanent" THEN "white" ELSE "black")]

\* Lines 378-416: the words of three letters or more, one after another.
WordPaints(data, words, k, redaction_type, case_sensitive) ==
    Flatten([n \in 1..Len(words) |->
        IF Len(words[n]) < 3 THEN << >>
        ELSE MatchPaints(data, MatchIdxs(data, words[n], case_sensitive), k, redaction_type)])

\* What the exact search of an item paints, or, if that is nothing and the
\* text has several words, the word-by-word search.
ExactOrWords(data, exact, search_text, k, redaction_type, case_sensitive) ==
    IF Len(exact) = 0 /\ Len(str_split(search_text)) > 1
    THEN WordPaints(data, str_split(search_text), k, redaction_type, case_sensitive)
    ELSE MatchPaints(data, exact, k, redaction_type)

\* One iteration of the loop over text_to_redact, lines 334-416.
ItemPaints(data, item, k) ==
    IF str_strip(item.text) = "" THEN << >>
    ELSE ExactOrWords(data, MatchIdxs(data, str_strip(item.text), item.case_sensitive),
                      str_strip(item.text), k,
                      IF item.redaction_type = "" THEN "temporary" ELSE item.redaction_type,
                      item.case_sensitive)

ItData(texts, confs) ==
    [text |-> texts, conf |-> confs,
     left |-> MkData(texts, [i \in 1..Len(texts) |-> 1]).left,
     top |-> MkData(texts, [i \in 1..Len(texts) |-> 1]).top,
     width |-> MkData(texts, [i \in 1..Len(texts) |-> 1]).width,
     height |-> MkData(texts, [i \in 1..Len(texts) |-> 1]).height]

\* What the OCR engine may return: tokens with a confidence of 20 or 90.
ItStreams ==
    UNION {{ItData(t, c) : t \in [1..n -> {"John", "Doe", "jane"}], c \in [1..n -> {20, 90}]} :
                n \in 0..MaxOcrTokens}

TextItems ==
    [text : {"John", "Jane Doe", " "}, redaction_type : {"", "permanent"},
     case_sensitive : BOOLEAN]

FileStates == {"readable", "unreadable", "missing"}

ItIdle == [pc |-> "idle", file |-> "missing", text_to_redact |-> << >>,
           ocr_data |-> ItData(<< >>, << >>), k |-> 0, img_cv |-> << >>,
           success_count |-> 0, error |-> "", output |-> NoFile]

\* A caller invokes apply_image_text_redactions(file_path, output_path,
\* text_to_redact).
ItCall ==
    /\ it_frame.pc = "idle"
    /\ \E file \in FileStates, text_to_redact \in SeqsUpTo(TextItems, MaxFields) :
            it_frame' = [ItIdle EXCEPT !.pc = "read", !.file = file,
                            !.text_to_redact = text_to_redact]
    /\ UNCHANGED it_others

\* Lines 320-332: read the image and run the OCR engine on it.
ItRead ==
    /\ it_frame.pc = "read"
    /\ IF it_frame.file = "readable"
       THEN \E data \in ItStreams :
                it_frame' = [it_frame EXCEPT !.pc = "loop", !.ocr_data = data]
       ELSE it_frame' = [it_frame EXCEPT !.pc = "except"]
    /\ UNCHANGED it_others

\* Lines 334-416: one item of text_to_redact.
ItIterate ==
    /\ it_frame.pc = "loop"
    /\ it_frame.k < Len(it_frame.text_to_redact)
    /\ it_frame' = [it_frame EXCEPT
            !.k = @ + 1,
            !.img_cv = @ \o ItemPaints(it_frame.ocr_data,
                                       it_frame.text_to_redact[it_frame.k + 1],
                                       it_frame.k + 1),
            !.success_count = @ + Len(ItemPaints(it_frame.ocr_data,
                                       it_frame.text_to_redact[it_frame.k + 1],
                                       it_frame.k + 1))]
    /\ UNCHANGED it_others

\* Lines 418 and 426: write the image, return success_count.
ItWrite ==
    /\ it_frame.pc = "loop"
    /\ it_frame.k >= Len(it_frame.text_to_redact)
    /\ it_frame' = [it_frame EXCEPT !.pc = "returned",
                        !.output = File("input", it_frame.img_cv)]
    /\ UNCHANGED it_others

\* Lines 420-426: the handler copies the file at file_path to output_path
\* and returns 0; shutil.copy2 raises when there is no such file.
ItExcept ==
    /\ it_frame.pc = "except"
    /\ IF it_frame.file = "missing"
       THEN it_frame' = [it_frame EXCEPT !.pc = "raised", !.error = "FileNotFoundError"]
       ELSE it_frame' = [it_frame EXCEPT !.pc = "returned", !.success_count = 0,
                            !.output = File("copy", << >>)]
    /\ UNCHANGED it_others

(***************************************************************************)
(* apply_pdf_redactions (app.py 481-644), run by two requests at once.    *)
(* The server handles requests in threads of one process, so the relative  *)
(* file names of lines 614 and 629 and of redact_ai.py:165 name the same   *)
(* files for both.  A file holds the page image written to it: the         *)
(* document and page it shows, and whether redact_image has gone over it.  *)
(***************************************************************************)
Requests == {1, 2}

PageNum == <<"0", "1", "2">>

\* f"temp_page_{page_num}.png"
TempPath(page_num) == "temp_page_" \o PageNum[page_num + 1] \o ".png"

\* f"redacted_temp_page_{page_num}.png"
RedactedTempPath(page_num) == "redacted_temp_page_" \o PageNum[page_num + 1] \o ".png"

DebugPath == "debug_preprocessed.png"

FileNames ==
    {TempPath(n) : n \in 0..(MaxPages - 1)} \cup {RedactedTempPath(n) : n \in 0..(MaxPages - 1)}
        \cup {DebugPath}

PageImage(doc, page_num) == [doc |-> doc, page |-> page_num, redacted |-> FALSE]

Absent == [doc |-> 0, page |-> 0, redacted |-> FALSE]

NoFiles == [f \in FileNames |-> Absent]

\* The manual directives of a request: the page and the directive's own
\* type ("" when the key is absent).
PdfDirectives == [page : 0..1, redaction_type : {"", "permanent"}]

\* The text of page 0: of a scan (100 characters or fewer), or of an
\* e-Aadhaar download with both of its headings.
PageTexts == {"scan", "eaadhaar"}

\* Lines 515-541.
detected_doc_type(document_type, text_content) ==
    IF text_content # "scan" /\ str_lower(document_type) \in {"aadhar", "aadhaar"}
            /\ text_content = "eaadhaar"
    THEN "eaadhaar"
    ELSE document_type

\* doc_fields.get(document_type, []) of lines 593-600.
PdfDocFields(document_type) ==
    CASE document_type \in {"aadhaar", "aadhar"} -> <<"name", "aadhaar_number", "dob", "address">>
      [] document_type = "pan" -> <<"name", "pan_number", "dob">>
      [] document_type = "passport" -> <<"name", "passport_number", "dob", "nationality">>
      [] OTHER -> << >>

\* The annotation lines 504-510 put on a page.
PdfMark(k, redaction, default_redaction_type) ==
    [of |-> k, page |-> redaction.page,
     kind |-> IF redaction_type_specific(redaction, default_redaction_type) = "permanent"
              THEN "redact_annot" ELSE "draw_rect"]

PrIdleFrame ==
    [pc |-> "idle", doc |-> 0, page_count |-> 0, redactions |-> << >>,
     default_redaction_type |-> "", document_type |-> "", text_content |-> "",
     open |-> FALSE, page_num |-> 0, redacted_img |-> Absent, marks |-> << >>,
     inserted |-> << >>, error |-> "", saved |-> FALSE]

PrIdle == [r \in Requests |-> PrIdleFrame]

\* Request r invokes apply_pdf_redactions on its own document.
PrCall(r) ==
    /\ pr_frame[r].pc = "idle"
    /\ \E page_count \in 1..MaxPages, redactions \in SeqsUpTo(PdfDirectives, 1),
          default_redaction_type \in RedactionTypes, document_type \in {"unknown", "aadhaar"},
          text_content \in PageTexts :
            pr_frame' = [pr_frame EXCEPT ![r] = [PrIdleFrame EXCEPT
                !.pc = "open", !.doc = r, !.page_count = page_count,
                !.redactions = redactions, !.default_redaction_type = default_redaction_type,
                !.document_type = document_type, !.text_content = text_content]]
    /\ UNCHANGED <<files, pr_others>>

\* Lines 483-541: open the document and choose the branch.
PrOpen(r) ==
    /\ pr_frame[r].pc = "open"
    /\ pr_frame' = [pr_frame EXCEPT ![r].open = TRUE,
            ![r].pc = IF Len(pr_frame[r].redactions) > 0 THEN "manual"
                      ELSE IF detected_doc_type(pr_frame[r].document_type,
                                    pr_frame[r].text_content) \in {"eaadhaar", "epan"}
                      THEN "epdf"
                      ELSE "save_temp"]
    /\ UNCHANGED <<files, pr_others>>

\* Lines 486-510: the manual directives whose page the document has.
PrManual(r) ==
    /\ pr_frame[r].pc = "manual"
    /\ pr_frame' = [pr_frame EXCEPT ![r].pc = "save",
            ![r].marks = SelectSeq(
                [k \in 1..Len(pr_frame[r].redactions) |->
                    PdfMark(k, pr_frame[r].redactions[k], pr_frame[r].default_redaction_type)],
                LAMBDA mk : mk.page < pr_frame[r].page_count)]
    /\ UNCHANGED <<files, pr_others>>

\* Lines 544-589: TEMPLATES has no key eaadhaar or epan, so template is {}
\* and no field is drawn; save, close and return.
PrEpdf(r) ==
    /\ pr_frame[r].pc = "epdf"
    /\ pr_frame' = [pr_frame EXCEPT ![r].pc = "returned", ![r].saved = TRUE, ![r].open = FALSE]
    /\ UNCHANGED <<files, pr_others>>

\* Lines 605-615: render the page and save it as temp_page_{page_num}.png.
PrSaveTemp(r) ==
    /\ pr_frame[r].pc = "save_temp"
    /\ files' = [files EXCEPT ![TempPath(pr_frame[r].page_num)] =
                    PageImage(pr_frame[r].doc, pr_frame[r].page_num)]
    /\ pr_frame' = [pr_frame EXCEPT ![r].pc = "redact"]
    /\ UNCHANGED pr_others

\* Lines 618-626: redact_image(temp_img_path, ..., debug=True) reads the
\* file, writes the debug snapshot (redact_ai.py:165) and redacts what it
\* read, or raises.
PrRedact(r) ==
    /\ pr_frame[r].pc = "redact"
    /\ LET read == files[TempPath(pr_frame[r].page_num)]
       IN  IF read = Absent
           THEN /\ pr_frame' = [pr_frame EXCEPT ![r].pc = "raised",
                                                ![r].error = "FileNotFoundError"]
                /\ UNCHANGED files
           ELSE /\ files' = [files EXCEPT ![DebugPath] = read]
                /\ IF AadhaarBranchRaises(ReqFields(pr_frame[r].document_type,
                                            PdfDocFields(pr_frame[r].document_type), << >>))
                   THEN pr_frame' = [pr_frame EXCEPT ![r].pc = "raised",
                                                     ![r].error = "UnboundLocalError"]
                   ELSE pr_frame' = [pr_frame EXCEPT ![r].pc = "save_redacted",
                                        ![r].redacted_img = [read EXCEPT !.redacted = TRUE]]
    /\ UNCHANGED pr_others

\* Lines 629-630: save the result as redacted_temp_page_{page_num}.png.
PrSaveRedacted(r) ==
    /\ pr_frame[r].pc = "save_redacted"
    /\ files' = [files EXCEPT ![RedactedTempPath(pr_frame[r].page_num)] =
                    pr_frame[r].redacted_img]
    /\ pr_frame' = [pr_frame EXCEPT ![r].pc = "insert"]
    /\ UNCHANGED pr_others

\* Lines 633-634: page.insert_image(img_rect, filename=redacted_temp_path).
PrInsert(r) ==
    /\ pr_frame[r].pc = "insert"
    /\ LET read == files[RedactedTempPath(pr_frame[r].page_num)]
       IN  IF read = Absent
           THEN pr_frame' = [pr_frame EXCEPT ![r].pc = "raised",
                                             ![r].error = "FileNotFoundError"]
           ELSE pr_frame' = [pr_frame EXCEPT ![r].pc = "cleanup",
                                             ![r].inserted = Append(@, read)]
    /\ UNCHANGED <<files, pr_others>>

\* Lines 637-641: remove both files; the first os.remove that fails ends
\* the try block.  Then the next page, or lines 643-644.
PrCleanup(r) ==
    /\ pr_frame[r].pc = "cleanup"
    /\ files' = IF files[TempPath(pr_frame[r].page_num)] = Absent THEN files
                ELSE [files EXCEPT ![TempPath(pr_frame[r].page_num)] = Absent,
                                   ![RedactedTempPath(pr_frame[r].page_num)] = Absent]
    /\ pr_frame' = [pr_frame EXCEPT
            ![r].page_num = @ + 1,
            ![r].pc = IF pr_frame[r].page_num + 1 < pr_frame[r].page_count
                      THEN "save_temp" ELSE "save"]
    /\ UNCHANGED pr_others

\* Lines 643-644: save and close.
PrSave(r) ==
    /\ pr_frame[r].pc = "save"
    /\ pr_frame' = [pr_frame EXCEPT ![r].pc = "returned", ![r].saved = TRUE, ![r].open = FALSE]
    /\ UNCHANGED <<files, pr_others>>

(***************************************************************************)
(* Specifications.                                                         *)
(***************************************************************************)
Init ==
    /\ ri_frame = RiIdle
    /\ det_frame = DetIdle
    /\ dd_frame = DdIdle
    /\ enh_frame = EnhIdle
    /\ mb_frame = MbIdle
    /\ ri_first = RiIdle
    /\ dr_frame = DrIdle
    /\ cu_frame = CuIdle
    /\ ai_frame = AiIdle
    /\ it_frame = ItIdle
    /\ pr_frame = PrIdle
    /\ files = NoFiles

Next ==
    \/ RiCall
    \/ RiPreprocess
    \/ RiOcr
    \/ RiDetect
    \/ RiTier1
    \/ RiTier2
    \/ RiTier3
    \/ RiReturn

Spec == Init /\ [][Next]_vars

NextDetect ==
    \/ DetCall
    \/ DetPass1
    \/ DetPass2
    \/ DetDedup
    \/ DetReturn

SpecDetect == Init /\ [][NextDetect]_vars

NextDedup ==
    \/ DdCall
    \/ DdDedup

SpecDedup == Init /\ [][NextDedup]_vars

NextBridge ==
    \/ EnhCall
    \/ EnhSkip
    \/ EnhJoin
    \/ AdtNoKey
    \/ AdtCurlFails
    \/ AdtCurlReturns
    \/ AdtParse
    \/ EnhMapField
    \/ EnhReturn

SpecBridge == Init /\ [][NextBridge]_vars

NextMerge ==
    \/ MbCall
    \/ MbReturn

SpecMerge == Init /\ [][NextMerge]_vars

NextTwice ==
    \/ RiCallTwice
    \/ RiPreprocess
    \/ RiOcrFirst
    \/ RiDetect
    \/ RiTier1
    \/ RiTier2
    \/ RiTier3
    \/ RiReturn
    \/ RiAgain
    \/ RiOcrAgain

SpecTwice == Init /\ [][NextTwice]_vars

NextLang ==
    \/ DetCallLang
    \/ DetPass1
    \/ DetPass2
    \/ DetDedup
    \/ DetReturn

SpecLang == Init /\ [][NextLang]_vars

NextDraw ==
    \/ DrCall
    \/ DrIterate
    \/ DrReturn

SpecDraw == Init /\ [][NextDraw]_vars

NextManual ==
    \/ CuCall
    \/ CuRead
    \/ CuIterate
    \/ CuReturn
    \/ AiCall
    \/ AiTryRead
    \/ AiTryIterate
    \/ AiTryWrite
    \/ AiTemplate
    \/ AiCopy
    \/ AiExcept
    \/ AiFallbackIterate
    \/ AiFallbackWrite

SpecManual == Init /\ [][NextManual]_vars

NextText ==
    \/ ItCall
    \/ ItRead
    \/ ItIterate
    \/ ItWrite
    \/ ItExcept

SpecText == Init /\ [][NextText]_vars

NextPdf ==
    \/ \E r \in Requests : PrCall(r)
    \/ \E r \in Requests : PrOpen(r)
    \/ \E r \in Requests : PrManual(r)
    \/ \E r \in Requests : PrEpdf(r)
    \/ \E r \in Requests : PrSaveTemp(r)
    \/ \E r \in Requests : PrRedact(r)
    \/ \E r \in Requests : PrSaveRedacted(r)
    \/ \E r \in Requests : PrInsert(r)
    \/ \E r \in Requests : PrCleanup(r)
    \/ \E r \in Requests : PrSave(r)

SpecPdf == Init /\ [][NextPdf]_vars

NextWords ==
    \/ DetCallWords
    \/ DetPass1
    \/ DetPass2
    \/ DetDedup
    \/ DetReturn

SpecWords == Init /\ [][NextWords]_vars

NextSpan ==
    \/ DetCallSpan
    \/ DetPass1
    \/ DetPass2
    \/ DetDedup
    \/ DetReturn

SpecSpan == Init /\ [][NextSpan]_vars

(***************************************************************************)
(* Properties of redact_image.                                             *)
(***************************************************************************)
RiFinished == ri_frame.pc \in {"returned", "raised"}

\* The paints of one field, in drawing order.
PaintsOfField(f) == SelectSeq(ri_frame.drawn, LAMBDA d : d.field = f)

\* The tiers that painted one field.
TiersOfField(f) == {d.tier : d \in Range(PaintsOfField(f))}

IsAadhaarDoc == str_lower(ri_frame.doc_type) \in {"aadhar", "aadhaar"}

\* The OCR stream has no 12-digit match and no Aadhaar-keyword hit.
NoAadhaarEvidence(data) ==
    /\ Len(RegexHits(AADHAAR_RE, data)) = 0
    /\ Len(AadhaarKeywordHitsFrom(data, 1)) = 0

BoxInsideImage(b, w, h) ==
    /\ b[3] > 0 /\ b[4] > 0
    /\ 0 <= b[1] /\ b[1] + b[3] <= w
    /\ 0 <= b[2] /\ b[2] + b[4] <= h

\* C1: on an Aadhaar document whose OCR stream gives no 12-digit match and
\* no Aadhaar-keyword hit, redact_image completes without raising and draws
\* exactly one rectangle for aadhaar_number, non-empty and inside the image.
C1_AadhaarFallbackGuarantee ==
    (/\ RiFinished
     /\ IsAadhaarDoc
     /\ ri_frame.image.readable
     /\ NoAadhaarEvidence(ri_frame.data))
    => /\ ri_frame.pc = "returned"
       /\ Len(PaintsOfField("aadhaar_number")) = 1
       /\ BoxInsideImage(PaintsOfField("aadhaar_number")[1].box, ri_frame.w, ri_frame.h)

\* The tiers have run.
RiTiersDone == ri_frame.pc \in {"tier3", "return", "returned"}

HasTemplate(f) ==
    /\ ri_frame.doc_type_normalized \in DOMAIN TEMPLATES
    /\ f \in DOMAIN TEMPLATES[ri_frame.doc_type_normalized]

OcrDetected(f) ==
    /\ f \in DOMAIN ri_frame.boxes_by_field
    /\ Len(ri_frame.boxes_by_field[f]) > 0

\* C2: a requested field with a non-empty OCR box list and a template entry
\* is drawn with its OCR boxes only; its template rectangle is never drawn.
C2_OcrBoxesNotTemplate ==
    \A f \in ri_frame.req_fields :
        (OcrDetected(f) /\ HasTemplate(f)) =>
            /\ \A d \in Range(PaintsOfField(f)) : d.tier # 2
            /\ RiTiersDone =>
                 [k \in 1..Len(PaintsOfField(f)) |-> PaintsOfField(f)[k].box]
                    = ri_frame.boxes_by_field[f]

C2_Witness ==
    /\ ri_frame.pc = "returned"
    /\ \E f \in ri_frame.req_fields :
          OcrDetected(f) /\ HasTemplate(f) /\ Len(PaintsOfField(f)) > 0

\* C3: a field the template tier painted is marked satisfied, and no field
\* is painted by more than one tier.
C3_TemplateMarksSatisfied ==
    RiTiersDone =>
        \A f \in ri_frame.req_fields :
            /\ 2 \in TiersOfField(f) => f \in ri_frame.fields_redacted
            /\ Cardinality(TiersOfField(f)) <= 1

\* The requested fields that no tier painted.
Unredacted == {f \in ri_frame.req_fields : Len(PaintsOfField(f)) = 0}

\* The field lists without field f.
WithoutField(fields, f) == SelectSeq(fields, LAMBDA e : str_lower(e) # f)

\* The image redact_image returns for a request that reads the same image
\* and the same OCR stream; order lists the requested fields.
RedactedImage(doc_type, permanent_fields, temporary_fields, lang, w, h, data, order) ==
    LET req == ReqFields(doc_type, permanent_fields, temporary_fields)
        r == detect_entities_from_ocr(data, req, lang)
        norm == DocTypeNormalized(doc_type)
        redacted == Tier1Redacted(r.hits)
    IN  ImageOf(w, h,
            Tier1Paints(r.hits, order, permanent_fields)
            \o Tier2Paints(norm, order, redacted, permanent_fields, w, h)
            \o Tier3Paints(norm, req, redacted, permanent_fields, w, h))

\* C4: a request that leaves a requested field unredacted is told apart from
\* a request in which every field was redacted: what redact_image returns
\* differs from what it returns when that field is not requested at all.
C4_UnredactedFieldReported ==
    ri_frame.pc = "returned" =>
        \A f \in Unredacted :
            ri_frame.result #
                RedactedImage(ri_frame.doc_type,
                              WithoutField(ri_frame.permanent_fields, f),
                              WithoutField(ri_frame.temporary_fields, f),
                              ri_frame.lang, ri_frame.w, ri_frame.h, ri_frame.data,
                              SelectSeq(ri_frame.req_order, LAMBDA e : e # f))

(***************************************************************************)
(* Properties of detect_entities_from_ocr.                                 *)
(***************************************************************************)
DetFinished == det_frame.pc \in {"returned", "raised"}

\* The non-empty tokens after token i on the line of token i.
Following(data, i) ==
    {j \in (i + 1)..NTokens(data) :
        data.line_num[j] = data.line_num[i] /\ str_strip(data.text[j]) # ""}

\* Tokens i, i+1, i+2 are "1234", "5678", "9012" on one line.
AadhaarRunAt(data, i) ==
    /\ i + 2 <= NTokens(data)
    /\ data.text[i] = "1234" /\ data.text[i + 1] = "5678" /\ data.text[i + 2] = "9012"
    /\ data.line_num[i] = data.line_num[i + 1]
    /\ data.line_num[i] = data.line_num[i + 2]

\* C8: when the tokens "1234", "5678", "9012" follow each other on one line,
\* the Aadhaar number detection returns a box that is the merge of exactly
\* those three tokens' boxes.
C8_AadhaarRunBox ==
    (DetFinished /\ "aadhaar_number" \in det_frame.requested_fields) =>
        \A i \in 1..NTokens(det_frame.data) :
            AadhaarRunAt(det_frame.data, i) =>
                /\ det_frame.pc = "returned"
                /\ _merge_boxes(BoxesOf(det_frame.data, <<i, i + 1, i + 2>>))
                      \in Range(det_frame.result["aadhaar_number"])

\* Token i contains a name keyword of the active language.
NameKeywordAt(data, lang, i) ==
    \E kw \in LANGUAGE_CONFIGS[PrimaryLang(lang)].name_keywords :
        str_in(kw, str_lower(str_strip(data.text[i])))

\* The text of tokens a and b joined by a space, lowercased, contains a
\* non-sensitive term.
JoinedNonSensitive(data, a, b) ==
    \E term \in NON_SENSITIVE_KEYWORDS :
        str_in(term, str_lower(data.text[a] \o " " \o data.text[b]))

\* C9: when a token contains a name keyword of the active language and
\* exactly two non-empty tokens follow it on its line, the name detection
\* returns the merge of exactly those two tokens' boxes as a hit, and returns
\* no such hit when their joined text contains a non-sensitive term.
C9_NameKeywordSpan ==
    (det_frame.pc = "returned" /\ "name" \in det_frame.requested_fields) =>
        \A i \in 1..NTokens(det_frame.data) :
            NameKeywordAt(det_frame.data, det_frame.lang, i) =>
                \A a, b \in Following(det_frame.data, i) :
                    (a < b /\ Following(det_frame.data, i) = {a, b}) =>
                    LET box == _merge_boxes(<<TokenBox(det_frame.data, a),
                                              TokenBox(det_frame.data, b)>>)
                        n == Cardinality({k \in 1..Len(det_frame.result["name"]) :
                                            det_frame.result["name"][k] = box})
                    IN  IF JoinedNonSensitive(det_frame.data, a, b)
                        THEN n = 0
                        ELSE n = 1

C9_Witness ==
    /\ det_frame.pc = "returned"
    /\ "name" \in det_frame.requested_fields
    /\ \E i, a, b \in 1..NTokens(det_frame.data) :
          /\ NameKeywordAt(det_frame.data, det_frame.lang, i)
          /\ a < b
          /\ Following(det_frame.data, i) = {a, b}
          /\ ~JoinedNonSensitive(det_frame.data, a, b)
          /\ _merge_boxes(<<TokenBox(det_frame.data, a), TokenBox(det_frame.data, b)>>)
                \in Range(det_frame.result["name"])


(***************************************************************************)
(* detect_entities_from_ocr on blank streams.                              *)
(***************************************************************************)
\* The stream has no token, or only tokens that are empty after strip().
BlankStream(data) == \A i \in 1..NTokens(data) : str_strip(data.text[i]) = ""

\* C13: on a blank stream the call returns, for every set of requested
\* fields, an empty box list for every requested field.
C13_BlankStreamNoHits ==
    (DetFinished /\ BlankStream(det_frame.data)) =>
        /\ det_frame.pc = "returned"
        /\ \A f \in det_frame.requested_fields : det_frame.result[f] = << >>

(***************************************************************************)
(* detect_entities_from_ocr and its lang argument.                         *)
(***************************************************************************)
\* The part of a code before its first "+", the whole code without one.
FirstCode(lang) ==
    IF "+" \in CharSet(lang)
    THEN SubSeq(lang, 1, Min({p \in 1..Len(lang) : Ch(lang, p) = "+"}) - 1)
    ELSE lang

SupportedCodes == {"eng", "tam", "kan", "hin", "tel", "mal"}

\* The keyword sets the claim assigns to a code.
SelectedConfig(lang) ==
    IF FirstCode(lang) \in SupportedCodes
    THEN LANGUAGE_CONFIGS[FirstCode(lang)]
    ELSE LANGUAGE_CONFIGS["eng"]

\* The hits of a keyword field under given keyword sets.
HitsUnder(cfg, data, field) ==
    Deduplicate(CASE field = "name" -> KeywordHits(data, cfg.name_keywords, 4)
                  [] field = "address" -> KeywordHits(data, cfg.address_keywords, 10)
                  [] field = "register_number" -> KeywordHits(data, cfg.register_keywords, 2))

\* C14: whatever the code, the call raises only where it raises for every
\* code (aadhaar_number requested), and the hits of name, address and
\* register_number are those of the keyword sets of the code's first
\* component, or of English when that component is not configured.
C14_LangSelectsFirstOrEnglish ==
    DetFinished =>
        /\ det_frame.pc = "raised" <=> "aadhaar_number" \in det_frame.requested_fields
        /\ det_frame.pc = "returned" =>
              \A f \in det_frame.requested_fields :
                  det_frame.result[f] =
                      HitsUnder(SelectedConfig(det_frame.lang), det_frame.data, f)

\* An unconfigured first component before a configured one: the English
\* keyword "name" gives a hit, the Hindi keyword gives none.
C14_Witness ==
    /\ det_frame.pc = "returned"
    /\ det_frame.lang = "fra+hin"
    /\ det_frame.requested_fields = {"name"}
    /\ det_frame.data.text = <<"~nam", "Name:", "City">>
    /\ Len(det_frame.result["name"]) = 1

(***************************************************************************)
(* Properties of the deduplication loop.                                   *)
(***************************************************************************)
\* Two boxes differ by at most one pixel in each of x, y, w and h.
Within1px(b1, b2) ==
    \A c \in 1..4 : b1[c] - b2[c] \in {-1, 0, 1}

AllWithin1px(hits) ==
    \A k1, k2 \in 1..Len(hits) : Within1px(hits[k1], hits[k2])

\* Two boxes agree on the halves, rounded down, of each of x, y, w and h.
SameHalves(b1, b2) ==
    \A c \in 1..4 : b1[c] \div 2 = b2[c] \div 2

AllSameKey(hits) ==
    \A k1, k2 \in 1..Len(hits) : SameHalves(hits[k1], hits[k2])

\* C10, as stated: a non-empty raw list whose boxes are all within 1 pixel
\* of each other in each of x, y, w and h is deduplicated to exactly one box.
C10_Within1pxKeepsOne ==
    (dd_frame.pc = "done" /\ Len(dd_frame.hits) > 0 /\ AllWithin1px(dd_frame.hits)) =>
        Len(dd_frame.uniq) = 1

\* C10, amended: a non-empty raw list whose boxes all have the same key
\* (x // 2, y // 2, w // 2, h // 2) is deduplicated to exactly one box, the
\* first of the list.
C10_SameKeyKeepsOne ==
    (dd_frame.pc = "done" /\ Len(dd_frame.hits) > 0 /\ AllSameKey(dd_frame.hits)) =>
        dd_frame.uniq = <<dd_frame.hits[1]>>

C10_Witness ==
    /\ dd_frame.pc = "done"
    /\ Len(dd_frame.hits) > 1
    /\ dd_frame.hits[1] # dd_frame.hits[2]
    /\ AllSameKey(dd_frame.hits)
    /\ Len(dd_frame.uniq) = 1


(***************************************************************************)
(* Properties of the classifier bridge.                                    *)
(***************************************************************************)
\* analyze_document_text has returned.
EnhAnalyzed ==
    /\ enh_frame.pc \in {"map", "returned", "raised"}
    /\ Len(enh_frame.extracted_fields) > 0

\* A span object with text, category and confidence.
IsSpan(info) ==
    /\ info.t = "dict"
    /\ JHas(info, "text") /\ JHas(info, "category") /\ JHas(info, "confidence")
    /\ JGet(info, "text", JNull).t = "str"

\* The candidate text parses as a list of span objects.
IsSpanList(text) ==
    LET parsed == CandidateJson[text]
    IN  /\ parsed.ok
        /\ parsed.v.t = "list"
        /\ \A j \in 1..Len(parsed.v.v) : IsSpan(parsed.v.v[j])

\* The classifier outcomes that count as failures.
ClassifierFailed ==
    \/ ~enh_frame.GEMINI_API_KEY
    \/ enh_frame.returncode # 0
    \/ ~enh_frame.stdout.json
    \/ ~CandidateText(enh_frame.stdout.value).ok
    \/ ~IsSpanList(CandidateText(enh_frame.stdout.value).text)

\* C5: on every failed classifier outcome analyze_document_text returns what
\* analyze_with_regex returns for the same text, and enhance_document_fields
\* does not raise.
C5_BridgeNeverFails ==
    (EnhAnalyzed /\ ClassifierFailed) =>
        /\ enh_frame.sensitive_info = RegexAnalysis[enh_frame.all_text]
        /\ enh_frame.pc # "raised"

\* The text of a span, "" when it has none.
SpanText(info) == JGet(info, "text", JStr("")).v

\* The spans of sensitive_info that field k of the request matches under
\* the policy Same, by their place in the classifier's list.
MatchingSpans(k, Same(_, _)) ==
    {j \in 1..Len(enh_frame.sensitive_info.v) :
        Same(enh_frame.extracted_fields[k].text, SpanText(enh_frame.sensitive_info.v[j]))}

\* enhance_document_fields has returned for a list of span dicts with texts.
EnhReturnedOnSpans ==
    /\ enh_frame.pc = "returned"
    /\ Len(enh_frame.extracted_fields) > 0
    /\ enh_frame.sensitive_info.t = "list"
    /\ \A j \in 1..Len(enh_frame.sensitive_info.v) :
          /\ enh_frame.sensitive_info.v[j].t = "dict"
          /\ JGet(enh_frame.sensitive_info.v[j], "text", JStr("")).t = "str"

IsAnnotated(out) == "sensitive" \in DOMAIN out

\* C6: enhance_document_fields returns one output per input field, in input
\* order: a field matching no span is returned unchanged with no sensitive
\* flag, a matching field carries the category and confidence of the first
\* matching span of the classifier's list.
C6_OneOutputPerField ==
    /\ enh_frame.pc = "returned" =>
          Len(enh_frame.result) = Len(enh_frame.extracted_fields)
    /\ EnhReturnedOnSpans =>
          \A k \in 1..Len(enh_frame.extracted_fields) :
              LET field == enh_frame.extracted_fields[k]
                  out == enh_frame.result[k]
                  matching == MatchingSpans(k, FieldMatches)
                  first == enh_frame.sensitive_info.v[Min(matching)]
              IN  IF matching = {}
                  THEN out = field /\ ~IsAnnotated(out)
                  ELSE /\ IsAnnotated(out)
                       /\ out.id = field.id /\ out.text = field.text
                       /\ out.sensitive
                       /\ out.category = JGet(first, "category", JStr("Unknown"))
                       /\ out.ai_confidence = JGet(first, "confidence", JNum(70))

C6_Witness ==
    /\ EnhReturnedOnSpans
    /\ \E k1, k2 \in 1..Len(enh_frame.extracted_fields) :
          /\ MatchingSpans(k1, FieldMatches) = {}
          /\ enh_frame.result[k1] = enh_frame.extracted_fields[k1]
          /\ \E j1, j2 \in MatchingSpans(k2, FieldMatches) :
                /\ j1 < j2
                /\ JGet(enh_frame.sensitive_info.v[j1], "category", JNull)
                      # JGet(enh_frame.sensitive_info.v[j2], "category", JNull)
          /\ IsAnnotated(enh_frame.result[k2])

\* The matching policy with the overlap measured against the character set
\* of the OCR field text.
SameByFieldSet(field_text, info_text) ==
    LET f == str_lower(field_text)
        i == str_lower(info_text)
        shared == {c \in CharSet(f) : c \in CharSet(i)}
    IN  \/ f = i
        \/ \E a \in 0..(Len(i) - Len(f)) : SubSeq(i, a + 1, a + Len(f)) = f
        \/ \E a \in 0..(Len(f) - Len(i)) : SubSeq(f, a + 1, a + Len(i)) = i
        \/ 10 * Cardinality(shared) > 7 * Cardinality(CharSet(f))

\* C7, as stated: a field is annotated exactly when some span is equal to
\* it ignoring case, or one text contains the other, or the lower-cased
\* characters they share are more than 70% of the character set of the
\* shorter of the two texts.
C7_MatchByShorterSet ==
    EnhReturnedOnSpans =>
        \A k \in 1..Len(enh_frame.extracted_fields) :
            IsAnnotated(enh_frame.result[k])
                <=> MatchingSpans(k, FieldMatches_ShorterSet) # {}

\* C7, amended: a field is annotated exactly when some span is equal to it
\* ignoring case, or one text contains the other, or the lower-cased
\* characters they share are more than 70% of the character set of the OCR
\* field text; field text "JohnSmith" with a span "John Smith" is annotated
\* sensitive, with that span's category when it is the first match.
C7_MatchByFieldSet ==
    EnhReturnedOnSpans =>
        \A k \in 1..Len(enh_frame.extracted_fields) :
            /\ IsAnnotated(enh_frame.result[k]) <=> MatchingSpans(k, SameByFieldSet) # {}
            /\ \A j \in 1..Len(enh_frame.sensitive_info.v) :
                  (/\ enh_frame.extracted_fields[k].text = "JohnSmith"
                   /\ SpanText(enh_frame.sensitive_info.v[j]) = "John Smith") =>
                      /\ IsAnnotated(enh_frame.result[k])
                      /\ enh_frame.result[k].sensitive
                      /\ j = Min(MatchingSpans(k, SameByFieldSet)) =>
                            enh_frame.result[k].category
                                = JGet(enh_frame.sensitive_info.v[j], "category", JNull)

C7_Witness ==
    /\ EnhReturnedOnSpans
    /\ ~enh_frame.fallback
    /\ \E k \in 1..Len(enh_frame.extracted_fields) :
          /\ enh_frame.extracted_fields[k].text = "JohnSmith"
          /\ SpanText(enh_frame.sensitive_info.v[1]) = "John Smith"
          /\ IsAnnotated(enh_frame.result[k])
          /\ enh_frame.result[k].category = JStr("Name")

(***************************************************************************)
(* Properties of _merge_boxes.                                             *)
(***************************************************************************)
\* The edges of a box <<x, y, w, h>>.
Left(b) == b[1]

Top(b) == b[2]

Right(b) == b[1] + b[3]

Bottom(b) == b[2] + b[4]

\* Box b lies inside rectangle r.
Contains(r, b) ==
    /\ Left(r) <= Left(b) /\ Right(b) <= Right(r)
    /\ Top(r) <= Top(b) /\ Bottom(b) <= Bottom(r)

\* Every edge of r is an edge of some box of the list.
Tight(r, boxes) ==
    /\ \E k \in 1..Len(boxes) : Left(boxes[k]) = Left(r)
    /\ \E k \in 1..Len(boxes) : Top(boxes[k]) = Top(r)
    /\ \E k \in 1..Len(boxes) : Right(boxes[k]) = Right(r)
    /\ \E k \in 1..Len(boxes) : Bottom(boxes[k]) = Bottom(r)

\* C11: for a non-empty list, _merge_boxes returns a rectangle that contains
\* every box of the list and each of whose four edges is the edge of one of
\* them (the least x and y, the greatest x + w and y + h).
C11_MergeIsTightBound ==
    (mb_frame.pc = "returned" /\ Len(mb_frame.boxes) > 0) =>
        /\ \A k \in 1..Len(mb_frame.boxes) : Contains(mb_frame.result, mb_frame.boxes[k])
        /\ Tight(mb_frame.result, mb_frame.boxes)

\* Two boxes that are apart in x and y: the result is neither of them.
C11_Witness ==
    /\ mb_frame.pc = "returned"
    /\ Len(mb_frame.boxes) = 2
    /\ Left(mb_frame.boxes[1]) < Left(mb_frame.boxes[2])
    /\ Top(mb_frame.boxes[1]) > Top(mb_frame.boxes[2])
    /\ mb_frame.result \notin Range(mb_frame.boxes)
    /\ Tight(mb_frame.result, mb_frame.boxes)

(***************************************************************************)
(* Properties of two runs of redact_image on one request.                  *)
(***************************************************************************)
\* Both runs have ended.
RiBothFinished ==
    /\ ri_first.pc # "idle"
    /\ ri_frame.pc \in {"returned", "raised"}

\* The rectangles a run drew, each with its style.
Rectangles(frame) ==
    {[box |-> frame.drawn[k].box, style |-> frame.drawn[k].style] : k \in 1..Len(frame.drawn)}

AtEmptyBox ==
    /\ dr_frame.pc = "loop"
    /\ dr_frame.k < Len(dr_frame.boxes)
    /\ \/ dr_frame.boxes[dr_frame.k + 1][3] <= 0
       \/ dr_frame.boxes[dr_frame.k + 1][4] <= 0

\* C16: the iteration for a box of non-positive width or height leaves every
\* pixel as it was, raises nothing and moves on to the next box.
C16_EmptyBoxSkipped ==
    [][AtEmptyBox =>
        /\ dr_frame'.color_bgr = dr_frame.color_bgr
        /\ dr_frame'.pc = "loop"
        /\ dr_frame'.k = dr_frame.k + 1]_vars

(***************************************************************************)
(* Properties of the directives drawn from coordinates.                    *)
(***************************************************************************)
\* The image apply_custom_redactions returned, as its paints.
CuResult == IF cu_frame.pc = "returned" THEN cu_frame.img ELSE << >>

\* The rectangles drawn for the k-th directive in an image.
BoxesFor(paints, k) == {p.box : p \in {q \in Range(paints) : q.of = k}}

DifferInMethodOnly(d1, d2) ==
    /\ d1.position = d2.position
    /\ d1.redaction_type = d2.redaction_type
    /\ d1.method # d2.method

\* Directives that differ in the method only are drawn over the same
\* rectangle or not at all.
MethodBlind(paints, redactions) ==
    \A i, j \in 1..Len(redactions) :
        DifferInMethodOnly(redactions[i], redactions[j]) =>
            BoxesFor(paints, i) = BoxesFor(paints, j)

\* The type in effect for the k-th directive of the call of
\* apply_image_redactions: its own, or the call's.
AiTypeOf(k) ==
    IF ai_frame.redactions[k].redaction_type \in {"permanent", "temporary"}
    THEN ai_frame.redactions[k].redaction_type
    ELSE ai_frame.redaction_type

\* C17: in the image either function hands back, directives that differ in
\* the method tag only are both drawn over the same rectangle or both
\* skipped, every permanent directive drawn is filled black, and every
\* temporary one with a highlight colour.
C17_MethodNeverStrength ==
    /\ cu_frame.pc \in {"returned", "raised"} =>
          /\ MethodBlind(CuResult, cu_frame.redactions)
          /\ \A p \in Range(CuResult) :
                IF cu_frame.redaction_type = "permanent"
                THEN p.fill = "black"
                ELSE p.fill \in {"yellow", "gray"}
    /\ ai_frame.pc \in {"returned", "raised"} =>
          /\ MethodBlind(ai_frame.output.paints, ai_frame.redactions)
          /\ \A p \in Range(ai_frame.output.paints) :
                IF AiTypeOf(p.of) = "permanent"
                THEN p.fill = "black"
                ELSE p.fill \in {"yellow", "red"}

\* A permanent call of apply_custom_redactions returned an image with a
\* select and a brush directive drawn over the same rectangle.
C17_Witness ==
    /\ cu_frame.pc = "returned"
    /\ cu_frame.redaction_type = "permanent"
    /\ Len(cu_frame.redactions) = 2
    /\ DifferInMethodOnly(cu_frame.redactions[1], cu_frame.redactions[2])
    /\ Len(cu_frame.img) = 2

(***************************************************************************)
(* Properties of the operations on an image that cannot be read.           *)
(***************************************************************************)
\* C18: a call of redact_image, apply_custom_redactions,
\* apply_image_redactions or apply_image_text_redactions on an image that
\* cannot be read ends raised, with no file at the output path.
C18_UnreadableEndsInError ==
    /\ (RiFinished /\ ~ri_frame.image.readable) => ri_frame.pc = "raised"
    /\ (cu_frame.pc \in {"returned", "raised"} /\ ~cu_frame.readable) =>
            cu_frame.pc = "raised"
    /\ (ai_frame.pc \in {"returned", "raised"} /\ ~ai_frame.readable) =>
            (ai_frame.pc = "raised" /\ ~ai_frame.output.exists)
    /\ (it_frame.pc \in {"returned", "raised"} /\ it_frame.file # "readable") =>
            (it_frame.pc = "raised" /\ ~it_frame.output.exists)

(***************************************************************************)
(* Properties of concurrent requests.                                      *)
(***************************************************************************)
\* C19: whatever a request reads back from an intermediate file, the page
\* image redact_image returned to it and the images it inserted into its
\* pages, shows a page of its own document.
C19_RequestsShareNothing ==
    \A r \in Requests :
        /\ pr_frame[r].redacted_img # Absent => pr_frame[r].redacted_img.doc = r
        /\ \A n \in 1..Len(pr_frame[r].inserted) : pr_frame[r].inserted[n].doc = r

(***************************************************************************)
(* The candidate after a keyword.                                          *)
(***************************************************************************)
\* Token i contains a keyword of the field in the active language.
KeywordAt(data, field, lang, i) ==
    \E kw \in (CASE field = "name" -> LANGUAGE_CONFIGS[PrimaryLang(lang)].name_keywords
                 [] field = "address" -> LANGUAGE_CONFIGS[PrimaryLang(lang)].address_keywords
                 [] OTHER -> LANGUAGE_CONFIGS[PrimaryLang(lang)].register_keywords) :
        str_in(kw, str_lower(str_strip(data.text[i])))

\* The first cap of the non-empty tokens after token i on its line, in
\* stream order.
CandidateAfter(data, i, cap) ==
    SelectIdx(NTokens(data),
              LAMBDA j : /\ j \in Following(data, i)
                         /\ Cardinality({m \in Following(data, i) : m < j}) < cap)

\* The boxes returned for a field when every keyword token yields the merged
\* box of its candidate, unless the candidate is empty or its text holds a
\* non-sensitive term.
CandidateBoxes(data, field, lang, cap) ==
    {_merge_boxes(BoxesOf(data, CandidateAfter(data, i, cap))) :
        i \in {k \in 1..NTokens(data) :
                /\ KeywordAt(data, field, lang, k)
                /\ Len(CandidateAfter(data, k, cap)) > 0
                /\ ~is_non_sensitive(str_join(TextsOf(data, CandidateAfter(data, k, cap))))}}

\* The boxes returned for a field are the candidates' boxes under the caps
\* for name, address and register_number.
CapsHold(name_cap, address_cap, register_cap) ==
    det_frame.pc = "returned" =>
        \A field \in det_frame.requested_fields \cap {"name", "address", "register_number"} :
            Range(det_frame.result[field]) =
                CandidateBoxes(det_frame.data, field, det_frame.lang,
                    CASE field = "name" -> name_cap
                      [] field = "address" -> address_cap
                      [] OTHER -> register_cap)

\* C20 as stated: the candidate after a keyword is the non-empty tokens that
\* follow it on its line, at most 4 of them for name and register_number
\* and at most 10 for address.
C20_CandidateFourFourTen == CapsHold(4, 10, 4)

\* C20 as the code has it: at most 4 for name, 2 for register_number and 10
\* for address.
C20_CandidateFourTwoTen == CapsHold(4, 10, 2)

\* A register keyword with three or more tokens after it on its line gave
\* the merged box of the first two.
C20_Witness ==
    /\ det_frame.pc = "returned"
    /\ det_frame.requested_fields = {"register_number"}
    /\ \E i \in 1..NTokens(det_frame.data) :
          /\ KeywordAt(det_frame.data, "register_number", det_frame.lang, i)
          /\ Cardinality(Following(det_frame.data, i)) >= 3
          /\ det_frame.result["register_number"] =
                << _merge_boxes(BoxesOf(det_frame.data, CandidateAfter(det_frame.data, i, 2))) >>

(***************************************************************************)
(* The template rectangle in pixels.                                       *)
(***************************************************************************)
\* The paints of the template tier.
Tier2Drawn == SelectSeq(ri_frame.drawn, LAMBDA d : d.tier = 2)

\* The template entry a tier-2 paint was drawn from.
TemplateOf(d) == TEMPLATES[ri_frame.doc_type_normalized][d.field]

\* pixels / size gives back the fraction (in hundredths) exactly.
ExactFraction(pixels, fraction, size) == pixels * 100 = fraction * size

\* pixels is the fraction of size cut down to a whole number: less than
\* one pixel is lost.
TruncatedFraction(pixels, fraction, size) ==
    pixels * 100 <= fraction * size /\ fraction * size < (pixels + 1) * 100

\* C21 as stated: every rectangle of the template tier, divided by the image
\* size, gives back the template's fractions with nothing lost to whole
\* pixels.
C21_TemplateRoundTripExact ==
    \A d \in Range(Tier2Drawn) :
        /\ ExactFraction(d.box[1], TemplateOf(d).x, ri_frame.w)
        /\ ExactFraction(d.box[2], TemplateOf(d).y, ri_frame.h)
        /\ ExactFraction(d.box[3], TemplateOf(d).w, ri_frame.w)
        /\ ExactFraction(d.box[4], TemplateOf(d).h, ri_frame.h)

\* C21 as the code has it: every coordinate is the fraction of the image
\* size cut down to whole pixels, so it gives the fraction back to within
\* one pixel.
C21_TemplateRoundTripTruncated ==
    \A d \in Range(Tier2Drawn) :
        /\ TruncatedFraction(d.box[1], TemplateOf(d).x, ri_frame.w)
        /\ TruncatedFraction(d.box[2], TemplateOf(d).y, ri_frame.h)
        /\ TruncatedFraction(d.box[3], TemplateOf(d).w, ri_frame.w)
        /\ TruncatedFraction(d.box[4], TemplateOf(d).h, ri_frame.h)

\* redact_image returned an image with a template rectangle whose height
\* lost part of a pixel.
C21_Witness ==
    /\ ri_frame.pc = "returned"
    /\ \E d \in Range(Tier2Drawn) :
          /\ TruncatedFraction(d.box[4], TemplateOf(d).h, ri_frame.h)
          /\ ~ExactFraction(d.box[4], TemplateOf(d).h, ri_frame.h)

(***************************************************************************)
(* The tokens of a regex match.                                           *)
(***************************************************************************)
\* The offset in the joined text at which the k-th non-empty token begins:
\* the lengths of the tokens before it and one space after each.
CharStart(data, k) ==
    Len(str_join([m \in 1..(k - 1) |-> Words(data)[NonEmptyIdxs(data)[m]]]))
        + (IF k > 1 THEN 1 ELSE 0)

CharEnd(data, k) == CharStart(data, k) + Len(Words(data)[NonEmptyIdxs(data)[k]])

\* The non-empty tokens whose characters overlap the span s..e (e excluded),
\* in stream order.
TokensInside(data, s, e) ==
    SelectSeq(NonEmptyIdxs(data),
              LAMBDA i : \E k \in 1..Len(NonEmptyIdxs(data)) :
                            /\ NonEmptyIdxs(data)[k] = i
                            /\ CharStart(data, k) < e
                            /\ CharEnd(data, k) > s)

\* The merged boxes of the tokens inside every match of the pattern.
MatchBoxes(data, pattern) ==
    {_merge_boxes(BoxesOf(data, TokensInside(data, sp[1], sp[2]))) :
        sp \in Range(finditer(pattern, FullText(data)))}

\* C22: the boxes returned for pan_number and dob are, for every match of
\* the pattern, the merged box of exactly the tokens whose characters
\* overlap the match.
C22_MatchTokensExact ==
    det_frame.pc = "returned" =>
        /\ "pan_number" \in det_frame.requested_fields =>
              Range(det_frame.result["pan_number"]) = MatchBoxes(det_frame.data, PAN_RE)
        /\ "dob" \in det_frame.requested_fields =>
              Range(det_frame.result["dob"]) = MatchBoxes(det_frame.data, DATE_RE)

(***************************************************************************)
(* The deduplication step inside detect_entities_from_ocr.                 *)
(***************************************************************************)
\* The k-th box of raw is the first of raw with its key.
FirstWithKey(raw, k) == \A j \in 1..(k - 1) : ~SameHalves(raw[j], raw[k])

\* kept is raw cut down to the first box of every key, in the order of raw.
KeepsFirstPerKey(raw, kept) ==
    /\ \A a, b \in 1..Len(kept) : a # b => ~SameHalves(kept[a], kept[b])
    /\ \A k \in 1..Len(raw) : \E a \in 1..Len(kept) : SameHalves(raw[k], kept[a])
    /\ kept = [n \in 1..Len(SelectIdx(Len(raw), LAMBDA k : FirstWithKey(raw, k))) |->
                    raw[SelectIdx(Len(raw), LAMBDA k : FirstWithKey(raw, k))[n]]]

\* C23: the returned dictionary has exactly the requested fields as keys,
\* and the list of every field is its raw hit list cut down to the first
\* box of every key (x // 2, y // 2, w // 2, h // 2), in first-seen order.
C23_DedupFirstPerKey ==
    det_frame.pc = "returned" =>
        /\ DOMAIN det_frame.result = det_frame.requested_fields
        /\ \A f \in det_frame.requested_fields :
              KeepsFirstPerKey(RawHits(det_frame.data, f, det_frame.lang),
                               det_frame.result[f])

\* A dob request returned one box where the raw list held the same box
\* twice (two dates in the stream's last token).
C23_Witness ==
    /\ det_frame.pc = "returned"
    /\ det_frame.requested_fields = {"dob"}
    /\ Len(RawHits(det_frame.data, "dob", det_frame.lang)) = 2
    /\ Len(det_frame.result["dob"]) = 1

(***************************************************************************)
(* The last-resort rectangle.                                              *)
(***************************************************************************)
\* C24: a last-resort paint is for aadhaar_number under an Aadhaar document
\* type, and a requested field with no OCR box and no template entry for
\* the document type is never painted.
C24_FallbackOnlyAadhaarNumber ==
    /\ \A d \in Range(ri_frame.drawn) :
          d.tier = 3 => (d.field = "aadhaar_number" /\ IsAadhaarDoc)
    /\ \A f \in ri_frame.req_fields \ {"aadhaar_number"} :
          (~OcrDetected(f) /\ ~HasTemplate(f)) => Len(PaintsOfField(f)) = 0

\* redact_image returned with a requested field that has no OCR box and no
\* template entry, and the image has no paint.
C24_Witness ==
    /\ ri_frame.pc = "returned"
    /\ \E f \in ri_frame.req_fields : ~OcrDetected(f) /\ ~HasTemplate(f)
    /\ Len(ri_frame.result.paints) = 0

(***************************************************************************)
(* Template rectangles and the image.                                      *)
(***************************************************************************)
\* A template rectangle (in hundredths) lies within the unit square.
InUnitSquare(box_norm) ==
    /\ box_norm.x \in 0..100 /\ box_norm.y \in 0..100
    /\ box_norm.w \in 0..100 /\ box_norm.h \in 0..100
    /\ box_norm.x + box_norm.w <= 100
    /\ box_norm.y + box_norm.h <= 100

\* A pixel rectangle does not leave an image of w x h pixels.
StaysInside(b, w, h) ==
    /\ 0 <= b[1] /\ b[1] + b[3] <= w
    /\ 0 <= b[2] /\ b[2] + b[4] <= h

\* C25: every rectangle of TEMPLATES lies within the unit square, and the
\* pixel rectangle it gives for the image redact_image has in hand when it
\* turns to the templates, for every document type and field, and every
\* template rectangle redact_image has drawn, stays inside the image.
C25_TemplateInsideImage ==
    /\ ri_frame.pc = "tier2" =>
          \A t \in DOMAIN TEMPLATES : \A f \in DOMAIN TEMPLATES[t] :
              /\ InUnitSquare(TEMPLATES[t][f])
              /\ StaysInside(TemplateBox(TEMPLATES[t][f], ri_frame.w, ri_frame.h),
                             ri_frame.w, ri_frame.h)
    /\ \A d \in Range(Tier2Drawn) : StaysInside(d.box, ri_frame.w, ri_frame.h)

\* redact_image returned after it drew a template rectangle that begins to the right of and below the image's corner.
C25_Witness ==
    /\ ri_frame.pc = "returned"
    /\ \E d \in Range(Tier2Drawn) : d.box[1] > 0 /\ d.box[2] > 0

C27_DocumentClosedOnExit ==
    \A r \in Requests :
        pr_frame[r].pc \in {"returned", "raised"} => ~pr_frame[r].open

(***************************************************************************)
(* The style of permanent fields.                                         *)
(***************************************************************************)
\* C28: every rectangle redact_image draws, in any tier, for a field the
\* caller listed in permanent_fields, in whatever letter case, is drawn in
\* the black style.
C28_PermanentAlwaysBlack ==
    \A d \in Range(ri_frame.drawn) :
        d.field \in {str_lower(f) : f \in Range(ri_frame.permanent_fields)}
            => d.style = "black"

(***************************************************************************)
(* Directives at the image's edge.                                        *)
(***************************************************************************)
\* Directive k of a list has a position of positive width and height.
PositiveSize(redactions, k) ==
    /\ redactions[k].position # NullPosition
    /\ redactions[k].position[3] > 0
    /\ redactions[k].position[4] > 0

\* The directives of a list that have a paint on an image.
DrawnDirectives(img) == {img[n].of : n \in 1..Len(img)}

\* C29: when apply_custom_redactions has returned, and when the coordinate
\* branch of apply_image_redactions has written its image, the directives
\* drawn are exactly those of positive width and height, a rectangle that
\* starts at x = 0 or y = 0 included.
C29_PositiveSizeAlwaysDrawn ==
    /\ cu_frame.pc = "returned" =>
          \A k \in 1..Len(cu_frame.redactions) :
              PositiveSize(cu_frame.redactions, k) <=> k \in DrawnDirectives(cu_frame.img)
    /\ (ai_frame.pc = "returned" /\ ai_frame.e = "") =>
          \A k \in 1..Len(ai_frame.redactions) :
              PositiveSize(ai_frame.redactions, k) <=> k \in DrawnDirectives(ai_frame.img)

(***************************************************************************)
(* Empty texts in enhance_document_fields.                                *)
(***************************************************************************)
\* C30: in what enhance_document_fields returns on a list of spans, a
\* field is annotated as sensitive only when its text is non-empty and it
\* matches a span whose text is non-empty.
C30_EmptyTextNeverSensitive ==
    EnhReturnedOnSpans =>
        \A k \in 1..Len(enh_frame.extracted_fields) :
            IsAnnotated(enh_frame.result[k]) =>
                /\ enh_frame.extracted_fields[k].text # ""
                /\ \E j \in MatchingSpans(k, FieldMatches) :
                      SpanText(enh_frame.sensitive_info.v[j]) # ""

====
